---- MODULE Spec2Model ----
(***************************************************************************)
(* Model of NimbusMCP: the weather MCP server (weather_mcp_server.py) and  *)
(* the client-side analysis cascade with its rule engine                   *)
(* (llm_weather_client.py).                                                *)
(*                                                                         *)
(* Strings that the code inspects character by character (environment     *)
(* values, generated texts) are sequences of one-character strings.        *)
(***************************************************************************)
EXTENDS Integers, Sequences, FiniteSets, TLC

VARIABLES
    env,          \* process environment read by os.getenv in the cascade
    weather_data, \* argument of the running analysis
    user_query,   \* argument of the running analysis
    pc,           \* position of analyze_weather_with_llm_async
    inflight,     \* outbound HTTP calls awaiting their response
    log,          \* endpoints contacted by the running analysis, in order
    lastResp,     \* response delivered to the most recent provider call
    analysis,     \* local variable `analysis` (Optional[str])
    missed,       \* providers whose call returned without a usable text
    source,       \* tier whose value was returned
    result,       \* value returned by analyze_weather_with_llm_async
    raised,       \* exception that left analyze_weather_with_llm_async
    interrupt,    \* cancellation or interrupt delivered at a pending await
    fields,        \* the field values the report under analysis was written from
    api_key,      \* WeatherMCPServer.api_key
    base_url,     \* WeatherMCPServer.base_url
    serverState,  \* Uninitialized, Ready or Closed
    lastRequest,  \* request the server handled last
    upstream,     \* requests sent to the weather provider while handling it
    lastUpstream, \* what the weather provider answered to them
    reply,        \* what the server answered
    failedBefore, \* some tool call so far was answered with a failure
    wrapper,      \* the call of the synchronous analyze_weather_with_llm, if any
    session,      \* WeatherLLMClient.session: "none" or "set"
    _exit_stack,  \* WeatherLLMClient._exit_stack: "none" or "open"
    link,         \* the stdio streams self.session writes to: none, open, closed
    phase,        \* never connected, connect failed, connected, disconnected
    lastCall      \* the client's last request method and how it ended

cascadeVars == <<env, weather_data, user_query, pc, inflight, log, lastResp,
                 analysis, missed, source, result, raised, interrupt>>

serverVars ==
    <<api_key, base_url, serverState, lastRequest, upstream, lastUpstream, reply,
      failedBefore>>

clientVars == <<session, _exit_stack, link, phase, lastCall>>

vars == <<cascadeVars, serverVars, fields, wrapper, clientVars>>

----------------------------------------------------------------------------
(* Character strings                                                       *)

Whitespace == {" ", "\n"}

\* str.lstrip(chars)
RECURSIVE LStripChars(_, _)
LStripChars(s, cs) ==
    IF s # <<>> /\ Head(s) \in cs THEN LStripChars(Tail(s), cs) ELSE s

\* str.rstrip(chars)
RECURSIVE RStripChars(_, _)
RStripChars(s, cs) ==
    IF s # <<>> /\ s[Len(s)] \in cs
    THEN RStripChars(SubSeq(s, 1, Len(s) - 1), cs)
    ELSE s

\* str.strip(chars)
StripChars(s, cs) == LStripChars(RStripChars(s, cs), cs)

\* str.strip()
Strip(s) == StripChars(s, Whitespace)

\* index of the first occurrence of the non-empty string k in s, 0 if none
Find(s, k) ==
    LET hits == { i \in 1..Len(s) :
                    /\ i + Len(k) - 1 <= Len(s)
                    /\ SubSeq(s, i, i + Len(k) - 1) = k }
    IN  IF hits = {} THEN 0 ELSE CHOOSE i \in hits : \A j \in hits : i <= j

\* k in s
Contains(s, k) == Find(s, k) # 0

\* str.split(k)
RECURSIVE Split(_, _)
Split(s, k) ==
    LET i == Find(s, k)
    IN  IF i = 0
        THEN <<s>>
        ELSE <<SubSeq(s, 1, i - 1)>> \o Split(SubSeq(s, i + Len(k), Len(s)), k)

\* str.split(k, 1)
Split1(s, k) ==
    LET i == Find(s, k)
    IN  IF i = 0
        THEN <<s>>
        ELSE <<SubSeq(s, 1, i - 1), SubSeq(s, i + Len(k), Len(s))>>

\* str.split(): the maximal runs of non-whitespace
RECURSIVE SplitWs(_)
SplitWs(s) ==
    LET t == LStripChars(s, Whitespace)
        ends == { i \in 1..Len(t) : t[i] \in Whitespace }
        e == IF ends = {} THEN Len(t) + 1
             ELSE CHOOSE i \in ends : \A j \in ends : i <= j
    IN  IF t = <<>> THEN <<>>
        ELSE <<SubSeq(t, 1, e - 1)>> \o SplitWs(SubSeq(t, e, Len(t)))

\* sep.join(parts)
RECURSIVE Join(_, _)
Join(parts, sep) ==
    IF parts = <<>> THEN <<>>
    ELSE IF Len(parts) = 1 THEN parts[1]
    ELSE parts[1] \o sep \o Join(Tail(parts), sep)

\* str.endswith(t)
EndsWith(s, t) == Len(s) >= Len(t) /\ SubSeq(s, Len(s) - Len(t) + 1, Len(s)) = t

\* code points of the characters that occur in timestamps
Ord(c) ==
    CASE c = " " -> 32 [] c = "-" -> 45 [] c = "0" -> 48 [] c = "1" -> 49
      [] c = "2" -> 50 [] c = "3" -> 51 [] c = "4" -> 52 [] c = "5" -> 53
      [] c = "6" -> 54 [] c = "7" -> 55 [] c = "8" -> 56 [] c = "9" -> 57
      [] c = ":" -> 58

\* a < b for str: lexicographic by code point
RECURSIVE StrLess(_, _)
StrLess(a, b) ==
    IF b = <<>> THEN FALSE
    ELSE IF a = <<>> THEN TRUE
    ELSE IF Head(a) = Head(b) THEN StrLess(Tail(a), Tail(b))
    ELSE Ord(Head(a)) < Ord(Head(b))

\* Optional[str]
None == [some |-> FALSE, s |-> <<>>]
Some(s) == [some |-> TRUE, s |-> s]

\* Python truthiness of an Optional[str]: None and "" are falsy
Truthy(o) == o.some /\ o.s # <<>>

\* outcome of a try body: a returned value or a raised Exception
Ret(v) == [exc |-> FALSE, val |-> v]
Exc == [exc |-> TRUE, val |-> None]

----------------------------------------------------------------------------
(* Environment                                                             *)

Unset == [set |-> FALSE, val |-> <<>>]
SetTo(s) == [set |-> TRUE, val |-> s]

\* os.getenv(name, default)
Getenv(name, default) == IF env[name].set THEN env[name].val ELSE default

DefaultOllamaHost == <<"l">>

KeyVals == {<<" ">>, <<" ", "k">>}
HostVals == {<<>>, <<"/">>, <<" ">>, <<"h", "/">>}

Envs ==
    { [n \in {"OPENAI_API_KEY", "HF_API_TOKEN", "OLLAMA_HOST"} |->
         IF n = "OPENAI_API_KEY" THEN a ELSE IF n = "HF_API_TOKEN" THEN b ELSE c] :
      a \in {Unset} \cup {SetTo(v) : v \in KeyVals},
      b \in {Unset} \cup {SetTo(v) : v \in KeyVals},
      c \in {Unset} \cup {SetTo(v) : v \in HostVals} }

openai_key == Strip(Getenv("OPENAI_API_KEY", <<>>))
hf_token == Strip(Getenv("HF_API_TOKEN", <<>>))
\* faulty variant: the trailing slashes are kept
ollama_host_NoRstrip == Getenv("OLLAMA_HOST", DefaultOllamaHost)

ollama_host == RStripChars(Getenv("OLLAMA_HOST", DefaultOllamaHost), {"/"})

----------------------------------------------------------------------------
(* Numbers in text.  Digits are characters.  A float is held as an integer *)
(* number of units of 10^-MaxFrac, so the texts of the model carry at most *)
(* MaxFrac fractional digits.                                              *)

MaxFrac == 1

RECURSIVE Pow10(_)
Pow10(n) == IF n = 0 THEN 1 ELSE 10 * Pow10(n - 1)

Scale == Pow10(MaxFrac)

Digits == {"0", "1", "2", "3", "4", "5", "6", "7", "8", "9"}

DigitVal(c) ==
    CASE c = "0" -> 0 [] c = "1" -> 1 [] c = "2" -> 2 [] c = "3" -> 3
      [] c = "4" -> 4 [] c = "5" -> 5 [] c = "6" -> 6 [] c = "7" -> 7
      [] c = "8" -> 8 [] c = "9" -> 9

DigitChar(d) ==
    CASE d = 0 -> "0" [] d = 1 -> "1" [] d = 2 -> "2" [] d = 3 -> "3"
      [] d = 4 -> "4" [] d = 5 -> "5" [] d = 6 -> "6" [] d = 7 -> "7"
      [] d = 8 -> "8" [] d = 9 -> "9"

RECURSIVE DecVal(_)
DecVal(ds) ==
    IF ds = <<>> THEN 0
    ELSE 10 * DecVal(SubSeq(ds, 1, Len(ds) - 1)) + DigitVal(ds[Len(ds)])

AllDigits(ds) == ds # <<>> /\ \A i \in 1..Len(ds) : ds[i] \in Digits

\* Optional number
NoNum == [some |-> FALSE, v |-> 0]
Num(n) == [some |-> TRUE, v |-> n]

\* int(s); NoNum stands for ValueError
ParseInt(s) ==
    LET t == Strip(s)
        neg == t # <<>> /\ Head(t) = "-"
        u == IF t # <<>> /\ Head(t) \in {"-", "+"} THEN Tail(t) ELSE t
    IN  IF AllDigits(u) THEN Num(IF neg THEN 0 - DecVal(u) ELSE DecVal(u))
        ELSE NoNum

\* float(s), in units of 1/Scale; NoNum stands for ValueError
ParseFloat(s) ==
    LET t == Strip(s)
        neg == t # <<>> /\ Head(t) = "-"
        u == IF t # <<>> /\ Head(t) \in {"-", "+"} THEN Tail(t) ELSE t
        parts == Split(u, <<".">>)
        ip == parts[1]
        fp == IF Len(parts) = 2 THEN parts[2] ELSE <<>>
        wellformed ==
            /\ Len(parts) <= 2
            /\ ip # <<>> \/ fp # <<>>
            /\ \A i \in 1..Len(ip) : ip[i] \in Digits
            /\ \A i \in 1..Len(fp) : fp[i] \in Digits
            /\ Len(fp) <= MaxFrac
        mag == Scale * DecVal(ip) + DecVal(fp) * Pow10(MaxFrac - Len(fp))
    IN  IF wellformed THEN Num(IF neg THEN 0 - mag ELSE mag) ELSE NoNum

----------------------------------------------------------------------------
(* Advice rule engine: WeatherLLMClient._rule_based_analysis               *)

LowerWord(w) ==
    CASE w = "Light" -> "light" [] w = "Rain" -> "rain" [] w = "Snow" -> "snow"
      [] w = "Clear" -> "clear" [] w = "Sky" -> "sky" [] w = "Error" -> "error"
      [] w = "Thunderstorm" -> "thunderstorm" [] w = "Drizzle" -> "drizzle"
      [] w = "Shower" -> "shower" [] w = "And" -> "and"
      [] OTHER -> w

UpperWord(w) ==
    CASE w = "light" -> "Light" [] w = "rain" -> "Rain" [] w = "snow" -> "Snow"
      [] w = "clear" -> "Clear" [] w = "sky" -> "Sky" [] w = "error" -> "Error"
      [] w = "thunderstorm" -> "Thunderstorm" [] w = "drizzle" -> "Drizzle"
      [] w = "shower" -> "Shower" [] w = "and" -> "And"
      [] OTHER -> w

\* str.lower()
Lower(s) == [i \in 1..Len(s) |-> LowerWord(s[i])]

\* str.capitalize()
Capitalize(s) ==
    [i \in 1..Len(s) |-> IF i = 1 THEN UpperWord(LowerWord(s[i])) ELSE LowerWord(s[i])]

\* the labels the report is searched for
Key ==
    [Temperature |-> <<"Temperature", ":">>,
     Conditions |-> <<"Conditions", ":">>,
     Humidity |-> <<"Humidity", ":">>,
     WindSpeed |-> <<"Wind", " ", "Speed", ":">>,
     Visibility |-> <<"Visibility", ":">>,
     FeelsLike |-> <<"feels", " ", "like">>]

\* get = lambda key: next((l for l in lines if key in l), "")
GetLine(lines, key) ==
    LET hits == { i \in 1..Len(lines) : Contains(lines[i], key) }
    IN  IF hits = {} THEN <<>>
        ELSE lines[CHOOSE i \in hits : \A j \in hits : i <= j]

Last(xs) == xs[Len(xs)]

\* faulty variant: the try blocks have no except clause
ExceptPass_Reraise(o) == o

\* except Exception: pass -- the variable keeps its None
ExceptPass(o) == IF o.exc THEN Ret(NoNum) ELSE o

\* float(s) and int(s) inside a try body
TryNum(n) == IF n.some THEN Ret(n) ELSE Exc

TempTry(lines) ==
    LET tline == GetLine(lines, Key.Temperature)
        tpart == Strip(Split(Split(tline, Key.Temperature)[2], <<"(">>)[1])
    IN  IF tline # <<>> THEN TryNum(ParseFloat(Split(tpart, <<"deg">>)[1]))
        ELSE Ret(NoNum)

FeelsTry(lines) ==
    LET tline == GetLine(lines, Key.Temperature)
        fpart == Strip(RStripChars(Last(Split(tline, Key.FeelsLike)), {")"}))
    IN  IF tline # <<>> /\ Contains(tline, <<"(">>)
        THEN TryNum(ParseFloat(Split(fpart, <<"deg">>)[1]))
        ELSE Ret(NoNum)

HumTry(lines) ==
    LET hline == GetLine(lines, Key.Humidity)
    IN  IF hline # <<>>
        THEN TryNum(ParseInt(StripChars(Split(hline, <<":">>)[2], {"%", " "})))
        ELSE Ret(NoNum)

\* .split()[0] of an empty remainder raises IndexError
WindTry(lines) ==
    LET wline == GetLine(lines, Key.WindSpeed)
        words == SplitWs(Split(wline, <<":">>)[2])
    IN  IF wline = <<>> THEN Ret(NoNum)
        ELSE IF words = <<>> THEN Exc
        ELSE TryNum(ParseFloat(words[1]))

VisTry(lines) ==
    LET vline == GetLine(lines, Key.Visibility)
    IN  IF vline # <<>>
        THEN TryNum(ParseInt(SelectSeq(vline, LAMBDA ch : ch \in Digits)))
        ELSE Ret(NoNum)

\* the five try blocks, each with its except clause
ParseOutcomes(lines) ==
    [temp |-> ExceptPass(TempTry(lines)), feels |-> ExceptPass(FeelsTry(lines)),
     hum |-> ExceptPass(HumTry(lines)), wind |-> ExceptPass(WindTry(lines)),
     vis |-> ExceptPass(VisTry(lines))]

ParseTemp(lines) == ExceptPass(TempTry(lines)).val
ParseFeels(lines) == ExceptPass(FeelsTry(lines)).val
ParseHum(lines) == ExceptPass(HumTry(lines)).val
ParseWind(lines) == ExceptPass(WindTry(lines)).val
ParseVis(lines) == ExceptPass(VisTry(lines)).val

ParseDesc(lines) ==
    Lower(Strip(Last(Split1(GetLine(lines, Key.Conditions), <<":">>))))

\* the tip texts (without their pictographs)
Tip ==
    [VeryCold |-> <<"Very cold. Wear a heavy coat, gloves, and a hat.">>,
     Chilly |-> <<"Chilly. A warm jacket and layers are recommended.">>,
     Hot |-> <<"Hot. Stay hydrated, wear light clothing, and limit midday sun.">>,
     Warm |-> <<"Warm and comfortable. T-shirt or light layers are fine.">>,
     Mild |-> <<"Mild. A light layer should be enough.">>,
     FeelsColder |-> <<"It feels colder than the actual temperature-add an extra layer.">>,
     FeelsWarmer |-> <<"It feels warmer than the actual temperature-dress lightly.">>,
     Umbrella |-> <<"Rain expected. Carry an umbrella or waterproof layer.">>,
     Boots |-> <<"Snowy conditions. Wear insulated boots with good traction.">>,
     Muggy |-> <<"Very humid-expect it to feel muggy. Stay hydrated.">>,
     Dry |-> <<"Dry air-consider moisturizer and stay hydrated.">>,
     Breezy |-> <<"Breezy to windy-secure hats/light items and consider a windbreaker.">>,
     StrongWind |-> <<"Strong winds-extra caution for outdoor activities.">>,
     LowVis |-> <<"Low visibility-take care if driving.">>]

T_Summary(desc) == <<"Conditions", ":", " ">> \o Capitalize(desc) \o <<".">>

ClothingTips(temp) ==
    IF ~temp.some THEN <<>>
    ELSE IF temp.v <= 0 THEN <<Tip.VeryCold>>
    ELSE IF temp.v <= 10 * Scale THEN <<Tip.Chilly>>
    ELSE IF temp.v >= 30 * Scale THEN <<Tip.Hot>>
    ELSE IF temp.v >= 22 * Scale THEN <<Tip.Warm>>
    ELSE <<Tip.Mild>>

FeelsTips(temp, feels) ==
    IF temp.some /\ feels.some
    THEN IF feels.v - temp.v <= (0 - 3) * Scale THEN <<Tip.FeelsColder>>
         ELSE IF feels.v - temp.v >= 3 * Scale THEN <<Tip.FeelsWarmer>>
         ELSE <<>>
    ELSE <<>>

\* the keywords that occur inside a longer word
PartsOf(w) == IF w = "thunderstorm" THEN {"thunderstorm", "thunder"} ELSE {w}

\* k in desc
HasWord(desc, w) == \E i \in 1..Len(desc) : w \in PartsOf(desc[i])

\* faulty variant: the snow test does not depend on the rain test
PrecipTips_Both(desc) ==
    (IF \E k \in {"rain", "drizzle", "thunder", "shower"} : HasWord(desc, k)
     THEN <<Tip.Umbrella>> ELSE <<>>)
    \o (IF HasWord(desc, "snow") THEN <<Tip.Boots>> ELSE <<>>)

PrecipTips(desc) ==
    IF \E k \in {"rain", "drizzle", "thunder", "shower"} : HasWord(desc, k)
    THEN <<Tip.Umbrella>>
    ELSE IF HasWord(desc, "snow") THEN <<Tip.Boots>>
    ELSE <<>>

HumidityTips(hum) ==
    IF ~hum.some THEN <<>>
    ELSE IF hum.v >= 80 THEN <<Tip.Muggy>>
    ELSE IF hum.v <= 30 THEN <<Tip.Dry>>
    ELSE <<>>

WindTips(wind) ==
    IF ~wind.some THEN <<>>
    ELSE (IF wind.v >= 10 * Scale THEN <<Tip.Breezy>> ELSE <<>>)
         \o (IF wind.v >= 17 * Scale THEN <<Tip.StrongWind>> ELSE <<>>)

VisTips(vis) == IF vis.some /\ vis.v < 3000 THEN <<Tip.LowVis>> ELSE <<>>

SummaryTips(desc) == IF desc # <<>> THEN <<T_Summary(desc)>> ELSE <<>>

\* list(dict.fromkeys(tips))
RECURSIVE Dedupe(_)
Dedupe(tips) ==
    IF tips = <<>> THEN <<>>
    ELSE LET init == Dedupe(SubSeq(tips, 1, Len(tips) - 1))
             t == tips[Len(tips)]
         IN  IF \E i \in 1..Len(init) : init[i] = t THEN init ELSE Append(init, t)

\* faulty variant: the summary is put first
Tips_SummaryFirst(lines) ==
    SummaryTips(ParseDesc(lines))
    \o ClothingTips(ParseTemp(lines))
    \o FeelsTips(ParseTemp(lines), ParseFeels(lines))
    \o PrecipTips(ParseDesc(lines))
    \o HumidityTips(ParseHum(lines))
    \o WindTips(ParseWind(lines))
    \o VisTips(ParseVis(lines))

Tips(lines) ==
    ClothingTips(ParseTemp(lines))
    \o FeelsTips(ParseTemp(lines), ParseFeels(lines))
    \o PrecipTips(ParseDesc(lines))
    \o HumidityTips(ParseHum(lines))
    \o WindTips(ParseWind(lines))
    \o VisTips(ParseVis(lines))
    \o SummaryTips(ParseDesc(lines))

\* faulty variant: the tips are joined by spaces
_rule_based_analysis_SpaceJoin(wd, q) ==
    Join(Dedupe(Tips(Split(wd, <<"\n">>))), <<" ">>)

_rule_based_analysis(wd, q) == Join(Dedupe(Tips(Split(wd, <<"\n">>))), <<"\n">>)

\* what a call of _rule_based_analysis ends with: the returned text, or the
\* exception that no except clause caught
RuleEngineCall(wd, q) ==
    LET o == ParseOutcomes(Split(wd, <<"\n">>))
    IN  IF o.temp.exc \/ o.feels.exc \/ o.hum.exc \/ o.wind.exc \/ o.vis.exc
        THEN Exc
        ELSE Ret(Some(_rule_based_analysis(wd, q)))

----------------------------------------------------------------------------
(* Responses of the advice providers                                       *)

\* JSON payloads, by the shape the three provider parsers distinguish:
\*   not_json       resp.json() raises
\*   error_obj      {"error": "..."}
\*   empty_choices  {"choices": []}
\*   chat           {"choices": [{"message": {"content": c}}]}
\*   empty_list     []
\*   str_list       ["..."]
\*   gen_list       [{"generated_text": c}]
\*   ollama         {"message": {"content": c}}
\* where c is a string or null (None).
NoBody == [shape |-> "none", content |-> None]

Contents == {None, Some(<<>>), Some(<<" ">>), Some(<<" ", "a", " ">>)}

Bodies ==
    { [shape |-> sh, content |-> None] :
        sh \in {"not_json", "error_obj", "empty_choices", "empty_list", "str_list"} }
    \cup { [shape |-> sh, content |-> c] :
             sh \in {"chat", "gen_list", "ollama"}, c \in Contents }

Statuses == {200, 302, 500}

\* what an awaited httpx request produces: a response, or a raised
\* httpx.TimeoutException / httpx.ConnectError
Responses ==
    { [kind |-> "http", status |-> st, body |-> b] : st \in Statuses, b \in Bodies }
    \cup { [kind |-> k, status |-> 0, body |-> NoBody] : k \in {"timeout", "connect_error"} }

NoResp == [to |-> "none", kind |-> "none", status |-> 0, body |-> NoBody]

Delivered(to, r) == [to |-> to, kind |-> r.kind, status |-> r.status, body |-> r.body]

IsDict(b) == b.shape \in {"error_obj", "empty_choices", "chat", "ollama"}
IsList(b) == b.shape \in {"empty_list", "str_list", "gen_list"}

\* isinstance(msg, str) and msg.strip()  ->  msg.strip(), else None
TextOrNone(c) == IF c.some /\ Strip(c.s) # <<>> THEN Some(Strip(c.s)) ELSE None

\* faulty variant: the try block has no except clause
CatchException_Propagates(o) == o

\* except Exception: return None
CatchException(o) == IF o.exc THEN Ret(None) ELSE o

OpenAITry(r) ==
    IF r.kind # "http" THEN Exc
    ELSE IF r.status >= 400 THEN Ret(None)
    ELSE IF r.body.shape = "not_json" THEN Exc
    ELSE IF ~IsDict(r.body) THEN Exc
    ELSE IF r.body.shape # "chat" THEN Ret(None)
    ELSE Ret(TextOrNone(r.body.content))

_analyze_with_openai(r) == CatchException(OpenAITry(r))

HFTry(r) ==
    IF r.kind # "http" THEN Exc
    ELSE IF r.status >= 400 THEN Ret(None)
    ELSE IF r.body.shape = "not_json" THEN Exc
    ELSE IF r.body.shape = "str_list" THEN Exc
    ELSE IF r.body.shape = "gen_list" THEN Ret(TextOrNone(r.body.content))
    ELSE Ret(None)

_analyze_with_hf(r) == CatchException(HFTry(r))

\* faulty variant: the probe's failure is ignored
ProbeFailed_Ignored(r) == FALSE

\* the reachability probe: try: await client.get(.../api/tags)
\* except Exception: return None
ProbeFailed(r) == r.kind # "http"

\* The httpx that can be installed next to the mcp package (mcp requires
\* httpx >= 0.27) raises HTTPStatusError for every status outside 2xx; only
\* releases older than that let 1xx and 3xx pass (strict = FALSE).
StrictModes == {TRUE}

\* resp.raise_for_status(): raises on 4xx and 5xx, and with a strict httpx on
\* every other status outside 2xx
RaiseForStatus(r, strict) ==
    r.status >= 400 \/ (strict /\ ~(r.status >= 200 /\ r.status < 300))

OllamaChatTry(r, strict) ==
    IF r.kind # "http" THEN Exc
    ELSE IF RaiseForStatus(r, strict) THEN Exc
    ELSE IF r.body.shape = "not_json" THEN Exc
    ELSE IF ~IsDict(r.body) THEN Exc
    ELSE IF r.body.shape # "ollama" THEN Ret(None)
    ELSE Ret(TextOrNone(r.body.content))

OllamaChat(r, strict) == CatchException(OllamaChatTry(r, strict))

----------------------------------------------------------------------------
(* Analysis cascade: WeatherLLMClient.analyze_weather_with_llm_async       *)

WaitPcs == {"openai_wait", "hf_wait", "probe_wait", "chat_wait"}

\* an awaited request leaves: it is outstanding until its response arrives
SendCall(call, infl) == infl \cup {call}

\* faulty variant: the request is started as a task and never awaited
CompleteCall_NotAwaited(call, infl) == infl

\* the await completes
CompleteCall(call, infl) == infl \ {call}

\* an exception leaves analyze_weather_with_llm_async
Propagate(e) ==
    /\ raised' = e
    /\ pc' = "failed"
    /\ UNCHANGED <<analysis, missed, source, result>>

\* the synchronous wrapper is not in use: the analysis, if any, was awaited
\* directly
NoWrapper == [pc |-> "none", loop |-> FALSE, result |-> None, raised |-> "none"]

\* a caller (chat_about_weather) awaits an analysis
Analyze(wd, q) ==
    /\ pc \in {"idle", "done"}
    /\ wrapper.pc # "running"
    /\ weather_data' = wd
    /\ user_query' = q
    /\ pc' = "openai"
    /\ log' = <<>>
    /\ lastResp' = NoResp
    /\ analysis' = None
    /\ missed' = {}
    /\ source' = "none"
    /\ result' = None
    /\ raised' = "none"
    /\ interrupt' = "none"
    /\ wrapper' = NoWrapper
    /\ UNCHANGED <<fields, clientVars, serverVars>>
    /\ UNCHANGED <<env, inflight>>

TryOpenAI ==
    /\ pc = "openai"
    /\ IF openai_key # <<>>
       THEN /\ inflight' = SendCall("openai", inflight)
            /\ log' = Append(log, "openai")
            /\ pc' = "openai_wait"
       ELSE /\ pc' = "hf"
            /\ UNCHANGED <<inflight, log>>
    /\ UNCHANGED <<wrapper, fields, clientVars, serverVars>>
    /\ UNCHANGED <<env, weather_data, user_query, lastResp, analysis, missed,
                   source, result, raised, interrupt>>

\* faulty variant: the provider's text is not returned, the next tier is tried
Returned_NoShortCircuit(prov, a, next) ==
    /\ missed' = missed \cup {prov}
    /\ pc' = next
    /\ UNCHANGED <<result, source>>

\* if analysis: return analysis
Returned(prov, a, next) ==
    IF Truthy(a)
    THEN /\ result' = Some(a.s)
         /\ source' = prov
         /\ pc' = "done"
         /\ UNCHANGED missed
    ELSE /\ missed' = missed \cup {prov}
         /\ pc' = next
         /\ UNCHANGED <<result, source>>

OpenAIReturn(r) ==
    /\ pc = "openai_wait"
    /\ inflight' = CompleteCall("openai", inflight)
    /\ lastResp' = Delivered("openai", r)
    /\ LET o == _analyze_with_openai(r)
       IN  IF o.exc
           THEN Propagate("Exception") /\ UNCHANGED interrupt
           ELSE /\ analysis' = o.val
                /\ Returned("openai", o.val, "hf")
                /\ UNCHANGED <<raised, interrupt>>
    /\ UNCHANGED <<wrapper, fields, clientVars, serverVars>>
    /\ UNCHANGED <<env, weather_data, user_query, log>>

TryHF ==
    /\ pc = "hf"
    /\ IF hf_token # <<>>
       THEN /\ inflight' = SendCall("hf", inflight)
            /\ log' = Append(log, "hf")
            /\ pc' = "hf_wait"
       ELSE /\ pc' = "ollama"
            /\ UNCHANGED <<inflight, log>>
    /\ UNCHANGED <<wrapper, fields, clientVars, serverVars>>
    /\ UNCHANGED <<env, weather_data, user_query, lastResp, analysis, missed,
                   source, result, raised, interrupt>>

HFReturn(r) ==
    /\ pc = "hf_wait"
    /\ inflight' = CompleteCall("hf", inflight)
    /\ lastResp' = Delivered("hf", r)
    /\ LET o == _analyze_with_hf(r)
       IN  IF o.exc
           THEN Propagate("Exception") /\ UNCHANGED interrupt
           ELSE /\ analysis' = o.val
                /\ Returned("hf", o.val, "ollama")
                /\ UNCHANGED <<raised, interrupt>>
    /\ UNCHANGED <<wrapper, fields, clientVars, serverVars>>
    /\ UNCHANGED <<env, weather_data, user_query, log>>

TryOllama ==
    /\ pc = "ollama"
    /\ IF ollama_host # <<>>
       THEN /\ inflight' = SendCall("ollama_tags", inflight)
            /\ log' = Append(log, "ollama_tags")
            /\ pc' = "probe_wait"
       ELSE /\ pc' = "rules"
            /\ UNCHANGED <<inflight, log>>
    /\ UNCHANGED <<wrapper, fields, clientVars, serverVars>>
    /\ UNCHANGED <<env, weather_data, user_query, lastResp, analysis, missed,
                   source, result, raised, interrupt>>

ProbeReturn(r) ==
    /\ pc = "probe_wait"
    /\ lastResp' = Delivered("ollama_tags", r)
    /\ IF ProbeFailed(r)
       THEN /\ inflight' = CompleteCall("ollama_tags", inflight)
            /\ analysis' = None
            /\ missed' = missed \cup {"ollama"}
            /\ pc' = "rules"
            /\ UNCHANGED log
       ELSE /\ inflight' = SendCall("ollama_chat", CompleteCall("ollama_tags", inflight))
            /\ log' = Append(log, "ollama_chat")
            /\ pc' = "chat_wait"
            /\ UNCHANGED <<analysis, missed>>
    /\ UNCHANGED <<wrapper, fields, clientVars, serverVars>>
    /\ UNCHANGED <<env, weather_data, user_query, source, result, raised,
                   interrupt>>

ChatReturn(r, strict) ==
    /\ pc = "chat_wait"
    /\ inflight' = CompleteCall("ollama_chat", inflight)
    /\ lastResp' = Delivered("ollama_chat", r)
    /\ LET o == OllamaChat(r, strict)
       IN  IF o.exc
           THEN Propagate("Exception") /\ UNCHANGED interrupt
           ELSE /\ analysis' = o.val
                /\ Returned("ollama", o.val, "rules")
                /\ UNCHANGED <<raised, interrupt>>
    /\ UNCHANGED <<wrapper, fields, clientVars, serverVars>>
    /\ UNCHANGED <<env, weather_data, user_query, log>>

RuleFallback ==
    /\ pc = "rules"
    /\ result' = Some(_rule_based_analysis(weather_data, user_query))
    /\ source' = "rules"
    /\ pc' = "done"
    /\ UNCHANGED <<wrapper, fields, clientVars, serverVars>>
    /\ UNCHANGED <<env, weather_data, user_query, inflight, log, lastResp,
                   analysis, missed, raised, interrupt>>

\* faulty variant: a bare except, which also handles BaseException
CaughtByExceptException_Bare(e) == TRUE

\* asyncio.CancelledError / KeyboardInterrupt raised at the pending await:
\* `except Exception` handles only subclasses of Exception
CaughtByExceptException(e) == e \notin {"CancelledError", "KeyboardInterrupt"}

Cancel(e) ==
    /\ pc \in WaitPcs
    /\ inflight' = {}
    /\ interrupt' = e
    /\ IF CaughtByExceptException(e)
       THEN /\ analysis' = None
            /\ missed' = missed \cup {IF pc = "openai_wait" THEN "openai"
                                      ELSE IF pc = "hf_wait" THEN "hf" ELSE "ollama"}
            /\ pc' = (IF pc = "openai_wait" THEN "hf"
                      ELSE IF pc = "hf_wait" THEN "ollama" ELSE "rules")
            /\ UNCHANGED raised
       ELSE /\ raised' = e
            /\ pc' = "cancelled"
            /\ UNCHANGED <<analysis, missed>>
    /\ UNCHANGED <<wrapper, fields, clientVars, serverVars>>
    /\ UNCHANGED <<env, weather_data, user_query, log, lastResp, source, result>>

\* faulty variant: the cascade is run whether or not a loop is running
LoopBlocksRun_Never(loop) == FALSE

\* `if loop and loop.is_running()`: asyncio.get_running_loop() gave a loop
LoopBlocksRun(loop) == loop

\* analyze_weather_with_llm is called, from a coroutine (loop) or from
\* synchronous code: with a loop running it returns the rule engine's output
\* at once, otherwise asyncio.run starts the cascade
SyncCall(wd, q, loop) ==
    /\ pc \in {"idle", "done"}
    /\ wrapper.pc # "running"
    /\ weather_data' = wd
    /\ user_query' = q
    /\ log' = <<>>
    /\ lastResp' = NoResp
    /\ analysis' = None
    /\ missed' = {}
    /\ source' = "none"
    /\ result' = None
    /\ raised' = "none"
    /\ interrupt' = "none"
    /\ IF LoopBlocksRun(loop)
       THEN /\ pc' = "idle"
            /\ wrapper' = [pc |-> "returned", loop |-> loop,
                           result |-> Some(_rule_based_analysis(wd, q)),
                           raised |-> "none"]
       ELSE /\ pc' = "openai"
            /\ wrapper' = [pc |-> "running", loop |-> loop, result |-> None,
                           raised |-> "none"]
    /\ UNCHANGED <<fields, clientVars, serverVars>>
    /\ UNCHANGED <<env, inflight>>

\* asyncio.run returns the cascade's value or raises what left the cascade;
\* `except Exception` turns an Exception into the rule engine's output
SyncFinish ==
    /\ wrapper.pc = "running"
    /\ pc \in {"done", "failed", "cancelled"}
    /\ wrapper' =
         IF pc = "done"
         THEN [wrapper EXCEPT !.pc = "returned", !.result = result]
         ELSE IF CaughtByExceptException(raised)
         THEN [wrapper EXCEPT !.pc = "returned",
                              !.result = Some(_rule_based_analysis(weather_data, user_query))]
         ELSE [wrapper EXCEPT !.pc = "raised", !.raised = raised]
    /\ UNCHANGED <<fields, clientVars, serverVars>>
    /\ UNCHANGED <<cascadeVars>>

----------------------------------------------------------------------------
(* Number formatting: str() of a JSON number inside an f-string            *)

JInt(n) == [isInt |-> TRUE, v |-> n]
\* a JSON float, v in units of 1/Scale
JFloat(v) == [isInt |-> FALSE, v |-> v]

RECURSIVE NatDigits(_)
NatDigits(n) ==
    IF n < 10 THEN <<DigitChar(n)>> ELSE NatDigits(n \div 10) \o <<DigitChar(n % 10)>>

RECURSIVE PadLeft(_, _)
PadLeft(ds, n) == IF Len(ds) >= n THEN ds ELSE PadLeft(<<"0">> \o ds, n)

Abs(n) == IF n < 0 THEN 0 - n ELSE n

FormatNum(x) ==
    LET a == Abs(x.v)
        sign == IF x.v < 0 THEN <<"-">> ELSE <<>>
        frac == RStripChars(PadLeft(NatDigits(a % Scale), MaxFrac), {"0"})
    IN  IF x.isInt THEN sign \o NatDigits(a)
        ELSE sign \o NatDigits(a \div Scale) \o <<".">>
             \o (IF frac = <<>> THEN <<"0">> ELSE frac)

\* str.title()
Title(s) == [i \in 1..Len(s) |-> UpperWord(LowerWord(s[i]))]

----------------------------------------------------------------------------
(* Weather MCP server: tool and resource handlers                          *)

Absent == "<absent>"

\* arguments.get("location"); str(None) is "None"
LocationOf(args) == IF args.location = Absent THEN "None" ELSE args.location

\* arguments.get("units", "metric")
UnitsOf(args) == IF args.units = Absent THEN "metric" ELSE args.units

\* api_units = None if units == "kelvin" else units; sent only if truthy
ApiUnits(units) == IF units = "kelvin" THEN Absent ELSE units

unit_symbol(units) ==
    IF units = "metric" THEN <<"deg", "C">>
    ELSE IF units = "imperial" THEN <<"deg", "F">>
    ELSE <<"K">>

\* faulty variant: only metric is labelled m/s
wind_unit_MetricOnly(units) == IF units = "metric" THEN <<"m/s">> ELSE <<"mph">>

wind_unit(units) == IF units \in {"metric", "kelvin"} THEN <<"m/s">> ELSE <<"mph">>

UpstreamRequest(endpoint, args) ==
    [endpoint |-> endpoint, q |-> LocationOf(args), appid |-> api_key.s,
     units |-> ApiUnits(UnitsOf(args))]

\* data.get('visibility', 'N/A')
VisibilityText(d) ==
    IF d.visibility.some THEN FormatNum(JInt(d.visibility.v)) ELSE <<"N/A">>

formatted_response(d, units) ==
    Join(<<
        <<"Current", " ", "Weather", " ", "for", " ", d.name, ",", " ", d.country, ":">>,
        <<"<t>", " ", "Temperature", ":", " ">> \o FormatNum(d.temp) \o unit_symbol(units)
            \o <<" ", "(", "feels", " ", "like", " ">> \o FormatNum(d.feels_like)
            \o unit_symbol(units) \o <<")">>,
        <<"<c>", " ", "Conditions", ":", " ">> \o Title(d.description),
        <<"<h>", " ", "Humidity", ":", " ">> \o FormatNum(d.humidity) \o <<"%">>,
        <<"<w>", " ", "Wind", " ", "Speed", ":", " ">> \o FormatNum(d.wind_speed)
            \o <<" ">> \o wind_unit(units),
        <<"<p>", " ", "Pressure", ":", " ">> \o FormatNum(d.pressure) \o <<" ", "hPa">>,
        <<"<v>", " ", "Visibility", ":", " ">> \o VisibilityText(d) \o <<" ", "meters">>
    >>, <<"\n">>)

\* group entries by date, in order of first occurrence (dict insertion order)
\* dt_txt.split(' ')[0] if ' ' in dt_txt else dt_txt
EntryDate(e) ==
    LET i == Find(e.dt_txt, <<" ">>)
    IN  IF i # 0 THEN SubSeq(e.dt_txt, 1, i - 1) ELSE e.dt_txt

DatesOf(list) == { EntryDate(list[i]) : i \in 1..Len(list) }

by_date(list, date) == SelectSeq(list, LAMBDA e : EntryDate(e) = date)

\* sorted(keys)
RECURSIVE SortedSeq(_)
SortedSeq(S) ==
    IF S = {} THEN <<>>
    ELSE LET m == CHOOSE x \in S : \A y \in S : x = y \/ StrLess(x, y)
         IN  <<m>> \o SortedSeq(S \ {m})

MaxDays == 5

\* the keys of by_date in insertion order
RECURSIVE KeysInOrder(_)
KeysInOrder(list) ==
    IF list = <<>> THEN <<>>
    ELSE LET init == KeysInOrder(SubSeq(list, 1, Len(list) - 1))
             k == EntryDate(list[Len(list)])
         IN  IF \E i \in 1..Len(init) : init[i] = k THEN init ELSE Append(init, k)

\* faulty variant: the keys are truncated without being sorted
dates_Unsorted(list) ==
    LET all == KeysInOrder(list)
    IN  SubSeq(all, 1, IF Len(all) < MaxDays THEN Len(all) ELSE MaxDays)

\* '12:00:00'
Noon == <<"1", "2", ":", "0", "0", ":", "0", "0">>

\* sorted(by_date.keys())[:5]
dates(list) ==
    LET all == SortedSeq(DatesOf(list))
    IN  SubSeq(all, 1, IF Len(all) < MaxDays THEN Len(all) ELSE MaxDays)

\* faulty variant: without a noon entry the first entry is taken
pick_representative_First(entries) ==
    LET noon == SelectSeq(entries, LAMBDA e : EndsWith(e.dt_txt, Noon))
    IN  IF noon # <<>> THEN noon[1] ELSE entries[1]

pick_representative(entries) ==
    LET noon == SelectSeq(entries, LAMBDA e : EndsWith(e.dt_txt, Noon))
    IN  IF noon # <<>> THEN noon[1] ELSE entries[(Len(entries) \div 2) + 1]

ForecastLine(date, f, units) ==
    <<"<d>", " ">> \o date \o <<":", " ">> \o FormatNum(f.temp)
    \o unit_symbol(units) \o <<",", " ">> \o Title(f.description)
    \o <<",", " ", "Humidity", ":", " ">> \o FormatNum(f.humidity) \o <<"%">> \o <<"\n">>

RECURSIVE ForecastLines(_, _, _)
ForecastLines(ds, list, units) ==
    IF ds = <<>> THEN <<>>
    ELSE ForecastLine(ds[1], pick_representative(by_date(list, ds[1])), units)
         \o ForecastLines(Tail(ds), list, units)

forecast_text(d, units) ==
    <<"5-Day", " ", "Weather", " ", "Forecast", " ", "for", " ", d.name, ",", " ",
      d.country, ":", "\n", "\n">>
    \o ForecastLines(dates(d.list), d.list, units)

\* outcome of the try body of a tool: the text, or the raised exception
TryText(t) == [exc |-> "none", text |-> t]
TryRaise(e, m) == [exc |-> e, text |-> m]

\* client.get, response.raise_for_status(), response.json() and the field
\* lookups: the exception they raise, if any
FetchTry(r, strict) ==
    IF r.kind # "http" THEN TryRaise("Exception", <<"connection failed">>)
    ELSE IF RaiseForStatus(r, strict) THEN TryRaise("HTTPStatusError", <<>>)
    ELSE IF r.payload.shape = "not_json"
         THEN TryRaise("Exception", <<"Expecting value">>)
    ELSE IF r.payload.shape = "missing_field"
         THEN TryRaise("Exception", <<"'", "main", "'">>)
    ELSE TryText(<<>>)

NotFoundText(location) ==
    <<"Error", ":", " ", "Location", " ", "'", location, "'", " ", "not", " ", "found",
      ".", " ", "Please check the spelling and try again.">>

ConfigErrorText ==
    <<"Error", ":", " ", "OPENWEATHER_API_KEY environment variable not set">>

\* e.response.text: the body as the provider sent it
ResponseText(r) ==
    IF r.payload.shape = "not_json" THEN <<"<html>">>
    ELSE IF r.payload.shape = "missing_field" THEN <<"{", "}">>
    ELSE <<"{", r.payload.data.name, "}">>

UpstreamErrorText(what, r) ==
    <<"Error", " ", "fetching", " ", what, " ", "data", ":", " ">>
    \o NatDigits(r.status) \o <<" ", "-", " ">> \o ResponseText(r)

ExceptionText(m) == <<"Error", ":", " ">> \o m

\* handler outcomes: the returned content blocks or a raised exception, and
\* the upstream requests issued on the way
Return(blocks, reqs) == [raised |-> FALSE, blocks |-> blocks, msg |-> <<>>, upstream |-> reqs]
Raise(m) == [raised |-> TRUE, blocks |-> <<>>, msg |-> m, upstream |-> <<>>]

\* faulty variant: only httpx.HTTPStatusError is handled
HandleFetch_NoCatchAll(what, endpoint, args, o, r) ==
    LET reqs == <<UpstreamRequest(endpoint, args)>>
    IN  IF o.exc = "HTTPStatusError"
        THEN IF r.status = 404
             THEN Return(<<NotFoundText(LocationOf(args))>>, reqs)
             ELSE Return(<<UpstreamErrorText(what, r)>>, reqs)
        ELSE IF o.exc = "Exception"
        THEN [raised |-> TRUE, blocks |-> <<>>, msg |-> o.text, upstream |-> reqs]
        ELSE Return(<<o.text>>, reqs)

\* faulty variant: a 404 is reported like every other status
HandleFetch_No404(what, endpoint, args, o, r) ==
    LET reqs == <<UpstreamRequest(endpoint, args)>>
    IN  IF o.exc = "HTTPStatusError"
        THEN Return(<<UpstreamErrorText(what, r)>>, reqs)
        ELSE IF o.exc = "Exception"
        THEN Return(<<ExceptionText(o.text)>>, reqs)
        ELSE Return(<<o.text>>, reqs)

\* the except clauses shared by both tools
HandleFetch(what, endpoint, args, o, r) ==
    LET reqs == <<UpstreamRequest(endpoint, args)>>
    IN  IF o.exc = "HTTPStatusError"
        THEN IF r.status = 404
             THEN Return(<<NotFoundText(LocationOf(args))>>, reqs)
             ELSE Return(<<UpstreamErrorText(what, r)>>, reqs)
        ELSE IF o.exc = "Exception"
        THEN Return(<<ExceptionText(o.text)>>, reqs)
        ELSE Return(<<o.text>>, reqs)

\* faulty variant: the key is looked at only after the request has been sent
_get_current_weather_KeyCheckLate(args, r, strict) ==
    IF ~Truthy(api_key)
    THEN Return(<<ConfigErrorText>>, <<UpstreamRequest("weather", args)>>)
    ELSE LET f == FetchTry(r, strict)
         IN  HandleFetch("weather", "weather", args,
                         IF f.exc # "none" THEN f
                         ELSE TryText(formatted_response(r.payload.data, UnitsOf(args))),
                         r)

_get_current_weather(args, r, strict) ==
    IF ~Truthy(api_key) THEN Return(<<ConfigErrorText>>, <<>>)
    ELSE LET f == FetchTry(r, strict)
         IN  HandleFetch("weather", "weather", args,
                         IF f.exc # "none" THEN f
                         ELSE TryText(formatted_response(r.payload.data, UnitsOf(args))),
                         r)

_get_weather_forecast(args, r, strict) ==
    IF ~Truthy(api_key) THEN Return(<<ConfigErrorText>>, <<>>)
    ELSE LET f == FetchTry(r, strict)
         IN  HandleFetch("forecast", "forecast", args,
                         IF f.exc # "none" THEN f
                         ELSE TryText(forecast_text(r.payload.data, UnitsOf(args))),
                         r)

\* faulty variant: every name other than get_forecast is served as get_weather
handle_call_tool_NoElse(name, args, r, strict) ==
    IF name = "get_forecast" THEN _get_weather_forecast(args, r, strict)
    ELSE _get_current_weather(args, r, strict)

handle_call_tool(name, args, r, strict) ==
    IF name = "get_weather" THEN _get_current_weather(args, r, strict)
    ELSE IF name = "get_forecast" THEN _get_weather_forecast(args, r, strict)
    ELSE Raise(<<"Unknown", " ", "tool", ":", " ", name>>)

ResourceUri == "weather://current"

UsageHint ==
    <<"{", "description", ":", " ", "Current weather resource", ",", " ", "usage", ":",
      " ", "Use the get_weather tool to fetch current weather data", ",", " ",
      "example", ":", " ", "get_weather(location='New York')", "}">>

handle_list_resources == <<ResourceUri>>

\* faulty variant: every non-empty URI is resolved
handle_read_resource_AnyUri(uri) ==
    IF uri # "" THEN Return(<<UsageHint>>, <<>>)
    ELSE Raise(<<"Unknown", " ", "resource", ":", " ", uri>>)

handle_read_resource(uri) ==
    IF uri = "weather://current" THEN Return(<<UsageHint>>, <<>>)
    ELSE Raise(<<"Unknown", " ", "resource", ":", " ", uri>>)

handle_list_tools == <<"get_weather", "get_forecast">>

----------------------------------------------------------------------------
(* Upstream weather provider                                               *)

W_London ==
    [name |-> "London", country |-> "GB", temp |-> JFloat(5 * Scale),
     feels_like |-> JFloat(2 * Scale), description |-> <<"light", " ", "rain">>,
     humidity |-> JInt(85), wind_speed |-> JFloat(12 * Scale), pressure |-> JInt(1012),
     visibility |-> Num(2500)]

W_Oslo ==
    [name |-> "Oslo", country |-> "NO", temp |-> JFloat(0 - 4 * Scale),
     feels_like |-> JInt(0 - 9), description |-> <<"snow">>,
     humidity |-> JInt(30), wind_speed |-> JInt(3), pressure |-> JInt(990),
     visibility |-> NoNum]

W_Nuuk ==
    [name |-> "Nuuk", country |-> "GL", temp |-> JFloat(0 - 45),
     feels_like |-> JFloat(0 - 9 * Scale), description |-> <<"snow">>,
     humidity |-> JInt(100), wind_speed |-> JFloat(175), pressure |-> JInt(990),
     visibility |-> Num(0)]

\* timestamps as the provider writes them: 'YYYY-MM-DD HH:00:00'
Two(n) == PadLeft(NatDigits(n), 2)
Day(m, d) == <<"2", "0", "2", "4", "-">> \o Two(m) \o <<"-">> \o Two(d)
Stamp(m, d, h) == Day(m, d) \o <<" ">> \o Two(h) \o <<":", "0", "0", ":", "0", "0">>

Entry(dt_txt, t) ==
    [dt_txt |-> dt_txt, temp |-> JFloat(t * Scale),
     description |-> <<"clear", " ", "sky">>, humidity |-> JInt(50 + t)]

\* seven dates, not in order; one of them in another month
F_Week ==
    [name |-> "London", country |-> "GB",
     list |-> <<Entry(Stamp(2, 7, 0), 3), Entry(Stamp(2, 1, 21), 4),
                Entry(Stamp(2, 2, 9), 5), Entry(Stamp(2, 2, 12), 9),
                Entry(Stamp(2, 3, 12), 8), Entry(Stamp(1, 31, 6), 7),
                Entry(Stamp(1, 31, 12), 6), Entry(Stamp(1, 31, 12), 2),
                Entry(Stamp(2, 5, 12), 1), Entry(Stamp(2, 10, 15), 10),
                Entry(Stamp(2, 10, 18), 11)>>]

\* two dates; a group of three and a group of two, both without noon
F_Partial ==
    [name |-> "Oslo", country |-> "NO",
     list |-> <<Entry(Stamp(1, 2, 15), 1), Entry(Stamp(1, 1, 15), 2),
                Entry(Stamp(1, 1, 18), 3), Entry(Stamp(1, 1, 21), 4),
                Entry(Stamp(1, 2, 18), 5)>>]

\* entries without a timestamp and with a date only
F_Odd ==
    [name |-> "Oslo", country |-> "NO",
     list |-> <<Entry(Day(1, 3), 1), Entry(<<>>, 2), Entry(Stamp(1, 3, 12), 3),
                Entry(<<>>, 4), Entry(<<>>, 5), Entry(<<>>, 6)>>]

F_Empty == [name |-> "Oslo", country |-> "NO", list |-> <<>>]

NoData == [name |-> "", country |-> ""]

\* bodies that are not a weather payload: no JSON at all, or JSON without
\* the expected fields (the provider's error object)
ErrorPayloads == { [shape |-> sh, data |-> NoData] : sh \in {"not_json", "missing_field"} }

Payloads(endpoint) ==
    ErrorPayloads
    \cup { [shape |-> "ok", data |-> d] :
             d \in IF endpoint = "weather" THEN {W_London, W_Oslo, W_Nuuk}
                   ELSE {F_Week, F_Partial, F_Odd, F_Empty} }

UpstreamStatuses == {200, 302, 404, 500}

\* what the awaited client.get produces: a response or a raised network
\* error; a status outside 2xx comes with an error body
UpstreamResponses(endpoint) ==
    { [kind |-> "http", status |-> 200, payload |-> p] : p \in Payloads(endpoint) }
    \cup { [kind |-> "http", status |-> st, payload |-> p] :
             st \in UpstreamStatuses \ {200}, p \in ErrorPayloads }
    \cup { [kind |-> "network_error", status |-> 0,
            payload |-> [shape |-> "none", data |-> NoData]] }

EndpointOf(name) == IF name = "get_forecast" THEN "forecast" ELSE "weather"

\* no upstream request was made
NoUpstream == [kind |-> "none", status |-> 0, payload |-> [shape |-> "none", data |-> NoData]]

----------------------------------------------------------------------------
(* Weather MCP server: request loop                                        *)

ToolNames == {"get_weather", "get_forecast", "get_humidity"}
Locations == {Absent, "London", "Zzzzzznotreal"}
UnitArgs == {Absent, "metric", "imperial", "kelvin"}
Uris == {"weather://current", "weather://forecast", "weather://current/", ""}
ApiKeys == {None, Some(<<>>), Some(<<"k">>)}

NoArgs == [location |-> Absent, units |-> Absent]
Request(method, name, args) == [method |-> method, name |-> name, args |-> args]

NoReply == [kind |-> "none", content |-> <<>>, items |-> <<>>]

\* the value the mcp Server sends back for a handler that returned or raised:
\* a raised exception is answered with an error carrying str(e)
FrameworkReply(o) ==
    IF o.raised THEN [kind |-> "error", content |-> <<o.msg>>, items |-> <<>>]
    ELSE [kind |-> "result", content |-> o.blocks, items |-> <<>>]

ItemsReply(items) == [kind |-> "result", content |-> <<>>, items |-> items]

\* a tool call ended in a failure: the handler raised, or it returned one of
\* the error texts
Failed(o) == o.raised \/ Contains(o.blocks[1], <<"Error">>)

\* WeatherMCPServer.run: the initialization handshake completes
Initialize ==
    /\ serverState = "Uninitialized"
    /\ serverState' = "Ready"
    /\ lastRequest' = Request("initialize", "", NoArgs)
    /\ reply' = ItemsReply(<<"weather-server", "1.0.0">>)
    /\ upstream' = <<>>
    /\ lastUpstream' = NoUpstream
    /\ UNCHANGED <<api_key, base_url, failedBefore>>
    /\ UNCHANGED <<cascadeVars, fields, wrapper, clientVars>>

\* faulty variant: an exception leaving the handler ends the service
CallTool_CrashOnError(name, args, r, strict) ==
    /\ serverState = "Ready"
    /\ \E o \in {handle_call_tool(name, args, r, strict)} :
           /\ reply' = FrameworkReply(o)
           /\ upstream' = o.upstream
           /\ lastUpstream' = IF o.upstream = <<>> THEN NoUpstream ELSE r
           /\ serverState' = IF o.raised THEN "Closed" ELSE serverState
           /\ failedBefore' = (failedBefore \/ Failed(o))
    /\ lastRequest' = Request("tools/call", name, args)
    /\ UNCHANGED <<api_key, base_url>>
    /\ UNCHANGED <<cascadeVars, fields, wrapper, clientVars>>

\* faulty variant: a call that names no units is served in the units of the
\* call before it
CallTool_RememberUnits(name, args, r, strict) ==
    /\ serverState = "Ready"
    /\ \E o \in {handle_call_tool(name,
                                   IF args.units = Absent /\ lastRequest.method = "tools/call"
                                   THEN [args EXCEPT !.units = lastRequest.args.units]
                                   ELSE args,
                                   r, strict)} :
           /\ reply' = FrameworkReply(o)
           /\ upstream' = o.upstream
           /\ lastUpstream' = IF o.upstream = <<>> THEN NoUpstream ELSE r
           /\ failedBefore' = (failedBefore \/ Failed(o))
    /\ lastRequest' = Request("tools/call", name, args)
    /\ UNCHANGED <<api_key, base_url, serverState>>
    /\ UNCHANGED <<cascadeVars, fields, wrapper, clientVars>>

\* handle_call_tool answered by the mcp Server; the service keeps no record of
\* the call beyond the reply it sends
CallTool(name, args, r, strict) ==
    /\ serverState = "Ready"
    /\ \E o \in {handle_call_tool(name, args, r, strict)} :
           /\ reply' = FrameworkReply(o)
           /\ upstream' = o.upstream
           /\ lastUpstream' = IF o.upstream = <<>> THEN NoUpstream ELSE r
           /\ failedBefore' = (failedBefore \/ Failed(o))
    /\ lastRequest' = Request("tools/call", name, args)
    /\ UNCHANGED <<api_key, base_url, serverState>>
    /\ UNCHANGED <<cascadeVars, fields, wrapper, clientVars>>

ReadResource(uri) ==
    /\ serverState = "Ready"
    /\ LET o == handle_read_resource(uri)
       IN  /\ reply' = FrameworkReply(o)
           /\ upstream' = o.upstream
           /\ lastUpstream' = NoUpstream
    /\ lastRequest' = Request("resources/read", uri, NoArgs)
    /\ UNCHANGED <<api_key, base_url, serverState, failedBefore>>
    /\ UNCHANGED <<cascadeVars, fields, wrapper, clientVars>>

ListResources ==
    /\ serverState = "Ready"
    /\ reply' = ItemsReply(handle_list_resources)
    /\ upstream' = <<>>
    /\ lastUpstream' = NoUpstream
    /\ lastRequest' = Request("resources/list", "", NoArgs)
    /\ UNCHANGED <<api_key, base_url, serverState, failedBefore>>
    /\ UNCHANGED <<cascadeVars, fields, wrapper, clientVars>>

ListTools ==
    /\ serverState = "Ready"
    /\ reply' = ItemsReply(handle_list_tools)
    /\ upstream' = <<>>
    /\ lastUpstream' = NoUpstream
    /\ lastRequest' = Request("tools/list", "", NoArgs)
    /\ UNCHANGED <<api_key, base_url, serverState, failedBefore>>
    /\ UNCHANGED <<cascadeVars, fields, wrapper, clientVars>>

\* the stdio transport closes and server.run returns
TransportClose ==
    /\ serverState \in {"Uninitialized", "Ready"}
    /\ serverState' = "Closed"
    /\ UNCHANGED <<api_key, base_url, lastRequest, upstream, lastUpstream, reply,
                   failedBefore, cascadeVars, fields, wrapper, clientVars>>

----------------------------------------------------------------------------
(* Client connection: WeatherLLMClient.connect_to_mcp_server, disconnect   *)
(* and the request methods                                                 *)

NoCall == [method |-> "none", location |-> Absent, units |-> Absent, phase |-> "never",
           kind |-> "none", value |-> <<>>, sent |-> FALSE]

\* WeatherLLMClient.__init__
ClientStart ==
    /\ session = "none"
    /\ _exit_stack = "none"
    /\ link = "none"
    /\ phase = "never"
    /\ lastCall = NoCall

\* the step of connect_to_mcp_server that raises, if any
ConnectFailures == {"none", "stdio_client", "ClientSession", "initialize"}

\* connect_to_mcp_server on a client that holds no exit stack (every caller
\* disconnects before it would connect again); `alive` says whether the
\* spawned server still holds its end of the streams when initialize() fails.
\* It returns True exactly when no step raised, which phase records.
connect_to_mcp_server(fail, alive) ==
    /\ _exit_stack = "none"
    /\ _exit_stack' = "open"
    /\ IF fail \in {"stdio_client", "ClientSession"}
       THEN UNCHANGED <<session, link>>
       ELSE /\ session' = "set"
            /\ link' = IF fail = "initialize" /\ ~alive THEN "closed" ELSE "open"
    /\ phase' = IF fail = "none" THEN "connected" ELSE "failed"
    /\ UNCHANGED <<lastCall, cascadeVars, serverVars, fields, wrapper>>

\* disconnect: the exit stack is closed, and the streams with it, and
\* forgotten; self.session is left as it is
disconnect ==
    /\ IF _exit_stack # "none"
       THEN /\ link' = IF link = "open" THEN "closed" ELSE link
            /\ _exit_stack' = "none"
       ELSE UNCHANGED <<link, _exit_stack>>
    /\ phase' = IF phase = "never" THEN "never" ELSE "disconnected"
    /\ UNCHANGED <<session, lastCall, cascadeVars, serverVars, fields, wrapper>>

\* what the server end answers to a request that reached it
SessionAnswers ==
    { [kind |-> "result", content |-> <<<<"Current", " ", "Weather">>>>],
      [kind |-> "result", content |-> <<>>],
      [kind |-> "error", content |-> <<<<"Unknown tool">>>>] }

\* how a request method ends: with a value returned, or an exception raised
Outcome(kind, value, sent) == [kind |-> kind, value |-> value, sent |-> sent]

\* `if not self.session`
NotConnected == session = "none"

\* await self.session.<request>: written to the streams if they are open,
\* else the write raises; an error answer is raised as McpError
SessionRequest(ans) ==
    IF link # "open" THEN Outcome("raised", <<"ClosedResourceError">>, FALSE)
    ELSE IF ans.kind = "error" THEN Outcome("raised", ans.content[1], TRUE)
    ELSE Outcome("returned", ans.content, TRUE)

list_available_tools(ans) ==
    IF NotConnected
    THEN Outcome("raised", <<"RuntimeError", ":", " ", "Not connected to MCP server">>, FALSE)
    ELSE SessionRequest(ans)

\* get_weather (what = "weather") and get_forecast (what = "forecast")
get_weather(what, ans) ==
    IF NotConnected
    THEN Outcome("raised", <<"RuntimeError", ":", " ", "Not connected to MCP server">>, FALSE)
    ELSE LET o == SessionRequest(ans)
         IN  IF o.kind = "raised"
             THEN Outcome("returned",
                          <<"Error", " ", "getting", " ", what, ":", " ">> \o o.value, o.sent)
             ELSE IF o.value # <<>>
             THEN Outcome("returned", o.value[1], o.sent)
             ELSE Outcome("returned", <<"No", " ", what, " ", "data", " ", "received">>,
                          o.sent)

ClientMethods == {"list_available_tools", "get_weather", "get_forecast"}

\* a caller awaits one of the request methods
ClientCall(method, loc, units, ans) ==
    /\ \E o \in { IF method = "list_available_tools" THEN list_available_tools(ans)
                  ELSE get_weather(IF method = "get_weather" THEN "weather" ELSE "forecast",
                                   ans) } :
         lastCall' = [method |-> method, location |-> loc, units |-> units,
                      phase |-> phase, kind |-> o.kind, value |-> o.value,
                      sent |-> o.sent]
    /\ UNCHANGED <<session, _exit_stack, link, phase, cascadeVars, serverVars, fields,
                   wrapper>>

----------------------------------------------------------------------------
(* Specifications                                                          *)

Reports ==
    { formatted_response(W_London, "metric"),
      NotFoundText("Zzzzzznotreal") }

Queries == { <<"Should I wear a jacket?">> }

\* field values of a report: numbers in units of 1/Scale (humidity and
\* visibility whole), NoNum where the report has no readable value
Fields(t, f, d, h, w, v) ==
    [temp |-> t, feels |-> f, desc |-> d, hum |-> h, wind |-> w, vis |-> v]

NoFields == Fields(NoNum, NoNum, <<>>, NoNum, NoNum, NoNum)

CascadeIdle ==
    /\ weather_data = <<>>
    /\ user_query = <<>>
    /\ pc = "idle"
    /\ inflight = {}
    /\ log = <<>>
    /\ lastResp = NoResp
    /\ analysis = None
    /\ missed = {}
    /\ source = "none"
    /\ result = None
    /\ raised = "none"
    /\ interrupt = "none"
    /\ fields = NoFields
    /\ wrapper = NoWrapper

ServerStart ==
    /\ base_url = "https://api.openweathermap.org/data/2.5"
    /\ serverState = "Uninitialized"
    /\ lastRequest = Request("none", "", NoArgs)
    /\ upstream = <<>>
    /\ lastUpstream = NoUpstream
    /\ reply = NoReply
    /\ failedBefore = FALSE

\* the server process after WeatherMCPServer.__init__
Init ==
    /\ api_key \in ApiKeys
    /\ ServerStart
    /\ ClientStart
    /\ env = CHOOSE e \in Envs : \A n \in DOMAIN e : ~e[n].set
    /\ CascadeIdle

Next ==
    \/ Initialize
    \/ \E name \in ToolNames, loc \in Locations, u \in UnitArgs, strict \in StrictModes :
         \E r \in UpstreamResponses(EndpointOf(name)) :
           CallTool(name, [location |-> loc, units |-> u], r, strict)
    \/ \E uri \in Uris : ReadResource(uri)
    \/ ListResources
    \/ ListTools
    \/ TransportClose

Spec == Init /\ [][Next]_vars

\* the client process before an analysis
CascadeInit ==
    /\ env \in Envs
    /\ CascadeIdle
    /\ api_key = None
    /\ ServerStart
    /\ ClientStart

CascadeNext ==
    \/ \E wd \in Reports, q \in Queries : Analyze(wd, q)
    \/ TryOpenAI
    \/ \E r \in Responses : OpenAIReturn(r)
    \/ TryHF
    \/ \E r \in Responses : HFReturn(r)
    \/ TryOllama
    \/ \E r \in Responses : ProbeReturn(r)
    \/ \E r \in Responses, strict \in StrictModes : ChatReturn(r, strict)
    \/ RuleFallback
    \/ \E e \in {"CancelledError", "KeyboardInterrupt"} : Cancel(e)
    \/ \E wd \in Reports, q \in Queries, loop \in BOOLEAN : SyncCall(wd, q, loop)
    \/ SyncFinish

SpecCascade == CascadeInit /\ [][CascadeNext]_vars

\* a client object after WeatherLLMClient()
ClientInit ==
    /\ ClientStart
    /\ ServerStart
    /\ api_key = None
    /\ env = CHOOSE e \in Envs : \A n \in DOMAIN e : ~e[n].set
    /\ CascadeIdle

ClientNext ==
    \/ \E fail \in ConnectFailures, alive \in BOOLEAN : connect_to_mcp_server(fail, alive)
    \/ disconnect
    \/ \E method \in ClientMethods, loc \in {"London", "Zzzzzznotreal"},
          units \in {"metric", "imperial"}, ans \in SessionAnswers :
         ClientCall(method, IF method = "list_available_tools" THEN Absent ELSE loc,
                    IF method = "list_available_tools" THEN Absent ELSE units, ans)

SpecClient == ClientInit /\ [][ClientNext]_vars

\* report lines the rule engine is run on, each with the values it was
\* written from; a line of <<>> is a line the report does not have
TempLine(t, ft) ==
    <<"<t>", " ", "Temperature", ":", " ">> \o t \o <<" ", "(", "feels", " ", "like", " ">>
    \o ft \o <<")">>

F1(v) == FormatNum(JFloat(v))

TempOpts ==
    { [line |-> TempLine(F1(5 * Scale) \o <<"deg", "C">>, F1(2 * Scale) \o <<"deg", "C">>),
       temp |-> Num(5 * Scale), feels |-> Num(2 * Scale)],
      [line |-> TempLine(F1(0 - (9 * Scale) \div 2) \o <<"deg", "F">>,
                         <<"-", "9", "deg", "F">>),
       temp |-> Num(0 - (9 * Scale) \div 2), feels |-> Num(0 - 9 * Scale)],
      [line |-> TempLine(F1(25 * Scale) \o <<"deg", "C">>, F1(29 * Scale) \o <<"deg", "C">>),
       temp |-> Num(25 * Scale), feels |-> Num(29 * Scale)],
      [line |-> <<"<t>", " ", "Temperature", ":", " ", "1", "5", "deg", "C">>,
       temp |-> Num(15 * Scale), feels |-> NoNum],
      [line |-> TempLine(<<"N/A", "deg", "C">>, F1(2 * Scale) \o <<"deg", "C">>),
       temp |-> NoNum, feels |-> Num(2 * Scale)],
      [line |-> <<>>, temp |-> NoNum, feels |-> NoNum] }

CondOpts ==
    { [line |-> <<"<c>", " ", "Conditions", ":", " ">> \o Title(d), desc |-> d] :
        d \in { <<"light", " ", "rain">>, <<"snow">>, <<"rain", " ", "and", " ", "snow">>,
                <<"thunderstorm">>, <<"drizzle">>, <<"light", " ", "shower", " ", "snow">>,
                <<"clear", " ", "sky">>, <<>> } }
    \cup { [line |-> <<>>, desc |-> <<>>] }

HumOpts ==
    { [line |-> <<"<h>", " ", "Humidity", ":", " ">> \o NatDigits(h) \o <<"%">>,
       hum |-> Num(h)] : h \in {85, 30, 50} }
    \cup { [line |-> <<"<h>", " ", "Humidity", ":", " ", "N/A", "%">>, hum |-> NoNum],
           [line |-> <<>>, hum |-> NoNum] }

WindOpts ==
    { [line |-> <<"<w>", " ", "Wind", " ", "Speed", ":", " ">> \o F1(12 * Scale)
                \o <<" ", "m/s">>, wind |-> Num(12 * Scale)],
      [line |-> <<"<w>", " ", "Wind", " ", "Speed", ":", " ">> \o F1((35 * Scale) \div 2)
                \o <<" ", "mph">>, wind |-> Num((35 * Scale) \div 2)],
      [line |-> <<"<w>", " ", "Wind", " ", "Speed", ":", " ", "3", " ", "m/s">>,
       wind |-> Num(3 * Scale)],
      [line |-> <<"<w>", " ", "Wind", " ", "Speed", ":", " ">>, wind |-> NoNum],
      [line |-> <<>>, wind |-> NoNum] }

VisOpts ==
    { [line |-> <<"<v>", " ", "Visibility", ":", " ">> \o NatDigits(v) \o <<" ", "meters">>,
       vis |-> Num(v)] : v \in {2500, 10000} }
    \cup { [line |-> <<"<v>", " ", "Visibility", ":", " ", "N/A", " ", "meters">>,
            vis |-> NoNum],
           [line |-> <<>>, vis |-> NoNum] }

\* the report made of the chosen lines, under the heading of a real report
ReportOf(t, c, h, w, v) ==
    Join(SelectSeq(<< <<"Current", " ", "Weather", " ", "for", " ", "London", ",", " ",
                       "GB", ":">>,
                     t.line, c.line, h.line, w.line,
                     <<"<p>", " ", "Pressure", ":", " ", "1", "0", "1", "2", " ", "hPa">>,
                     v.line >>,
                   LAMBDA l : l # <<>>),
         <<"\n">>)

\* texts that are no report: the empty string and the in-band errors
NonReports == { <<>>, ConfigErrorText, NotFoundText("Zzzzzznotreal") }

RulesIdle ==
    /\ pc = "idle"
    /\ inflight = {}
    /\ log = <<>>
    /\ lastResp = NoResp
    /\ analysis = None
    /\ missed = {}
    /\ source = "none"
    /\ result = None
    /\ raised = "none"
    /\ interrupt = "none"
    /\ wrapper = NoWrapper
    /\ env = CHOOSE e \in Envs : \A n \in DOMAIN e : ~e[n].set
    /\ api_key = None
    /\ ServerStart
    /\ ClientStart

\* a client about to call _rule_based_analysis(weather_data, user_query)
RulesInit ==
    /\ \/ \E t \in TempOpts, c \in CondOpts, h \in HumOpts, w \in WindOpts, v \in VisOpts :
            /\ weather_data = ReportOf(t, c, h, w, v)
            /\ fields = Fields(t.temp, t.feels, c.desc, h.hum, w.wind, v.vis)
       \/ /\ weather_data \in NonReports
          /\ fields = NoFields
    /\ user_query \in Queries
    /\ RulesIdle

\* the call of _rule_based_analysis returns or raises
RunRules ==
    /\ pc = "idle"
    /\ \E o \in {RuleEngineCall(weather_data, user_query)} :
           IF o.exc
           THEN pc' = "failed" /\ raised' = "Exception" /\ UNCHANGED <<result, source>>
           ELSE pc' = "done" /\ result' = o.val /\ source' = "rules" /\ UNCHANGED raised
    /\ UNCHANGED <<wrapper, fields, clientVars, serverVars>>
    /\ UNCHANGED <<env, weather_data, user_query, inflight, log,
                   lastResp, analysis, missed, interrupt>>

RulesNext == RunRules

SpecRules == RulesInit /\ [][RulesNext]_vars

\* the steps of a running analysis
ProviderStep ==
    \/ TryOpenAI
    \/ \E r \in Responses : OpenAIReturn(r)
    \/ TryHF
    \/ \E r \in Responses : HFReturn(r)
    \/ TryOllama
    \/ \E r \in Responses : ProbeReturn(r)
    \/ \E r \in Responses, strict \in StrictModes : ChatReturn(r, strict)

CascadeStep == ProviderStep \/ RuleFallback

----------------------------------------------------------------------------
(* Properties of the analysis cascade                                      *)

Range(f) == { f[i] : i \in DOMAIN f }

Rank(call) ==
    CASE call = "openai" -> 1 [] call = "hf" -> 2
      [] call = "ollama_tags" -> 3 [] call = "ollama_chat" -> 4

\* the code's own test of "configured", read off the environment
KeyGiven(name) ==
    env[name].set /\ \E i \in 1..Len(env[name].val) : env[name].val[i] \notin Whitespace

HostGiven ==
    \/ ~env["OLLAMA_HOST"].set
    \/ \E i \in 1..Len(env["OLLAMA_HOST"].val) : env["OLLAMA_HOST"].val[i] # "/"

Tried(call) == call \in Range(log)

ProviderOf(call) == IF call \in {"ollama_tags", "ollama_chat"} THEN "ollama" ELSE call

\* the provider was contacted and came back without a usable text
Missed(prov) == prov \in missed /\ \E c \in Range(log) : ProviderOf(c) = prov

SkippedOrMissed(prov, given) == ~given \/ Missed(prov)

Finished == pc = "done"

\* C1: providers are tried in the order OpenAI, Hugging Face, Ollama, rule
\* engine; a provider is contacted only if it is configured and every
\* higher-priority provider was unconfigured or missed; the value returned is
\* the text of the first provider that produced one, and nothing is
\* contacted after it.
C1_PriorityOrder ==
    /\ \A i, j \in DOMAIN log : i < j => Rank(log[i]) < Rank(log[j])
    /\ Tried("openai") => KeyGiven("OPENAI_API_KEY")
    /\ Tried("hf") =>
         /\ KeyGiven("HF_API_TOKEN")
         /\ SkippedOrMissed("openai", KeyGiven("OPENAI_API_KEY"))
    /\ Tried("ollama_tags") =>
         /\ HostGiven
         /\ SkippedOrMissed("openai", KeyGiven("OPENAI_API_KEY"))
         /\ SkippedOrMissed("hf", KeyGiven("HF_API_TOKEN"))
    /\ lastResp.to \in {"openai", "hf", "ollama_chat"} =>
         (ProviderOf(lastResp.to) \in missed <=> ~Truthy(analysis))
    /\ Truthy(analysis) =>
         /\ Finished
         /\ result = analysis
         /\ lastResp.to = Last(log)
         /\ source = ProviderOf(lastResp.to)
    /\ (Finished /\ source = "rules") =>
         /\ SkippedOrMissed("openai", KeyGiven("OPENAI_API_KEY"))
         /\ SkippedOrMissed("hf", KeyGiven("HF_API_TOKEN"))
         /\ SkippedOrMissed("ollama", HostGiven)
         /\ ~Truthy(analysis)

\* a lower tier answered after a higher one was tried and missed
C1_Witness ==
    /\ Finished
    /\ source = "ollama"
    /\ log = <<"openai", "hf", "ollama_tags", "ollama_chat">>

\* number of steps a run at this position can still take
StepsLeft ==
    CASE pc = "openai" -> 9 [] pc = "openai_wait" -> 8 [] pc = "hf" -> 7
      [] pc = "hf_wait" -> 6 [] pc = "ollama" -> 5 [] pc = "probe_wait" -> 4
      [] pc = "chat_wait" -> 3 [] pc = "rules" -> 2 [] OTHER -> 0

Running == pc \notin {"idle", "done", "cancelled"}

C2_NoError ==
    /\ raised \notin {"Exception"}
    /\ pc # "failed"
    /\ Running => (pc = "rules" \/ ENABLED ProviderStep)
    /\ Finished => result.some
    /\ (Finished /\ ~Truthy(analysis)) =>
         result = Some(_rule_based_analysis(weather_data, user_query))

\* C2: the cascade never fails: whatever the providers answer, no provider
\* error leaves analyze_weather_with_llm_async; a running analysis can always
\* take its next step and every step brings it closer to its end, so it
\* terminates; a finished run has returned a string, and that string is the
\* rule engine's output when every tried provider missed.
C2_NeverFails ==
    /\ []C2_NoError
    /\ [][Running => StepsLeft' < StepsLeft]_vars

\* all three providers were tried, each failed differently, rules answered
C2_Witness ==
    /\ Finished
    /\ source = "rules"
    /\ log = <<"openai", "hf", "ollama_tags", "ollama_chat">>
    /\ lastResp.kind = "timeout"
    /\ result.s # <<>>

\* C3 as stated: with no OpenAI key, no Hugging Face token and no local host
\* set, nothing is contacted and the rule engine's output is returned.
C3_Original ==
    (/\ ~KeyGiven("OPENAI_API_KEY")
     /\ ~KeyGiven("HF_API_TOKEN")
     /\ (~env["OLLAMA_HOST"].set \/ ~HostGiven))
    => /\ log = <<>>
       /\ Finished => result = Some(_rule_based_analysis(weather_data, user_query))

\* OLLAMA_HOST is set, to the empty string or to slashes only
HostDisabled == env["OLLAMA_HOST"].set /\ ~HostGiven

\* C3 (amended): with no OpenAI key, no Hugging Face token and OLLAMA_HOST
\* explicitly set to an empty host, nothing is contacted and the value
\* returned is exactly the rule engine's output for the same report and query.
C3_AllDisabled ==
    (~KeyGiven("OPENAI_API_KEY") /\ ~KeyGiven("HF_API_TOKEN") /\ HostDisabled)
    => /\ log = <<>>
       /\ inflight = {}
       /\ Finished =>
            /\ source = "rules"
            /\ result = Some(_rule_based_analysis(weather_data, user_query))

C3_Witness ==
    /\ ~KeyGiven("OPENAI_API_KEY") /\ ~KeyGiven("HF_API_TOKEN") /\ HostDisabled
    /\ env["OLLAMA_HOST"].val = <<"/">>
    /\ Finished
    /\ result.s # <<>>

\* C4: outbound calls are strictly sequential: at most one is in flight, it
\* is the one contacted last, and everything contacted before it has come
\* back as a miss (the probe) or without a usable text (a provider).
C4_Sequential ==
    /\ Cardinality(inflight) <= 1
    /\ inflight # {} => (log # <<>> /\ inflight = {Last(log)} /\ pc \in WaitPcs)
    /\ pc \in WaitPcs => inflight = {Last(log)}
    /\ \A i \in DOMAIN log : i < Len(log) => log[i] \notin inflight

\* the chat call is in flight after three earlier calls have completed
C4_Witness ==
    /\ inflight = {"ollama_chat"}
    /\ log = <<"openai", "hf", "ollama_tags", "ollama_chat">>

\* the text in the field each remote provider is read from
ExpectedText(r) ==
    IF r.to = "openai" /\ r.body.shape = "chat" THEN r.body.content
    ELSE IF r.to = "hf" /\ r.body.shape = "gen_list" THEN r.body.content
    ELSE None

IsHit(r) ==
    /\ r.kind = "http"
    /\ r.status >= 200 /\ r.status < 300
    /\ ExpectedText(r).some
    /\ Strip(ExpectedText(r).s) # <<>>

\* C5: for OpenAI and Hugging Face a call is a hit exactly when the response
\* is a 2xx carrying non-empty text in the expected field; everything else
\* (non-2xx, timeout, error object, empty text) is a miss that raises nothing
\* and lets the cascade proceed.
C5_MissOnFailure ==
    lastResp.to \in {"openai", "hf"} =>
        /\ Truthy(analysis) <=> IsHit(lastResp)
        /\ raised = "none"
        /\ ~IsHit(lastResp) => pc \notin {"done", "failed"} \/ source \notin {"openai", "hf"}

\* C6: the reachability probe always precedes the Ollama chat call, and after
\* a failed probe the chat call is never attempted: the provider is a miss
\* and the rule engine answers.
C6_ProbeGuardsChat ==
    /\ \A i \in DOMAIN log :
         log[i] = "ollama_chat" => (i > 1 /\ log[i - 1] = "ollama_tags")
    /\ (lastResp.to = "ollama_tags" /\ lastResp.kind \in {"timeout", "connect_error"}) =>
         /\ ~Tried("ollama_chat")
         /\ inflight = {}
         /\ pc \in {"rules", "done"}
         /\ Finished => source = "rules"

C6_Witness ==
    /\ lastResp.to = "ollama_tags"
    /\ lastResp.kind = "connect_error"
    /\ Finished
    /\ source = "rules"

\* C7: a cancellation or interrupt delivered while a provider call is in
\* flight abandons that call and ends the run: no further provider is
\* contacted, the rule engine is not run, and nothing is returned.
C7_CancelStops ==
    interrupt # "none" =>
        /\ pc = "cancelled"
        /\ raised = interrupt
        /\ inflight = {}
        /\ ~result.some
        /\ source = "none"
        /\ ~ENABLED CascadeStep

C7_Witness ==
    /\ interrupt = "CancelledError"
    /\ log = <<"openai">>
    /\ KeyGiven("HF_API_TOKEN")

\* the value returned by the call of analyze_weather_with_llm is the rule
\* engine's output for the call's arguments
RulesReturned ==
    wrapper.result = Some(_rule_based_analysis(weather_data, user_query))

\* the statement of C22 as written: the synchronous wrapper never raises;
\* with a loop running it contacts no provider and returns the rule engine's
\* output; with none it returns the cascade's value, or the rule engine's
\* output if running the cascade raised
C22_NeverRaises ==
    /\ wrapper.pc # "raised"
    /\ (wrapper.pc # "none" /\ wrapper.loop) =>
           (wrapper.pc = "returned" /\ log = <<>> /\ RulesReturned)
    /\ (wrapper.pc = "returned" /\ ~wrapper.loop) =>
           \/ pc = "done" /\ wrapper.result = result
           \/ raised # "none" /\ RulesReturned

\* C22, as the code has it: called while an event loop is running, the
\* synchronous wrapper contacts no provider and returns the rule engine's
\* output, whatever credentials are configured; called with no loop running
\* it returns the value the cascade returned, or the rule engine's output if
\* an Exception left the cascade; it raises nothing derived from Exception,
\* but a cancellation or KeyboardInterrupt delivered while the cascade awaits
\* a provider leaves the wrapper too, and nothing is returned.
C22_Wrapper ==
    /\ (wrapper.pc # "none" /\ wrapper.loop) =>
           /\ wrapper.pc = "returned"
           /\ log = <<>> /\ inflight = {} /\ pc = "idle"
           /\ RulesReturned
    /\ (wrapper.pc = "returned" /\ ~wrapper.loop) =>
           \/ pc = "done" /\ wrapper.result = result /\ result.some
           \/ pc = "failed" /\ RulesReturned
    /\ wrapper.pc = "raised" =>
           /\ ~wrapper.loop
           /\ wrapper.raised \in {"CancelledError", "KeyboardInterrupt"}
           /\ interrupt = wrapper.raised
           /\ pc = "cancelled"
           /\ ~wrapper.result.some
    /\ (wrapper.pc = "running" /\ pc \in {"done", "failed", "cancelled"}) =>
           ENABLED SyncFinish

\* called from a coroutine with an OpenAI key configured, the wrapper
\* returned the rule engine's output and contacted nobody
C22_Witness ==
    /\ wrapper.pc = "returned" /\ wrapper.loop
    /\ KeyGiven("OPENAI_API_KEY")
    /\ log = <<>>
    /\ wrapper.result.some

\* called with no loop running, the wrapper raised the KeyboardInterrupt
\* that arrived while the cascade awaited the first provider
C22_Raised ==
    /\ wrapper.pc = "raised"
    /\ wrapper.raised = "KeyboardInterrupt"
    /\ log = <<"openai">>

----------------------------------------------------------------------------
(* Properties of the tool service                                          *)

ToolCall(names) == lastRequest.method = "tools/call" /\ lastRequest.name \in names

\* C8: get_weather and get_forecast answer every upstream outcome (success,
\* 404, other status, network error, payload without an expected field) with
\* a result of exactly one text block; no upstream failure is raised.
C8_OneTextBlock ==
    ToolCall({"get_weather", "get_forecast"}) =>
        /\ reply.kind = "result"
        /\ Len(reply.content) = 1
        /\ reply.content[1] # <<>>

\* the forecast payload lacked a field and the KeyError became text
C8_Witness ==
    /\ ToolCall({"get_forecast"})
    /\ upstream # <<>>
    /\ reply.content = <<ExceptionText(<<"'", "main", "'">>)>>

\* the service handles a call-tool request for an unknown name
UnknownToolStep ==
    \E name \in ToolNames \ {"get_weather", "get_forecast"}, loc \in Locations,
       u \in UnitArgs, strict \in StrictModes, r \in UpstreamResponses("weather") :
        CallTool(name, [location |-> loc, units |-> u], r, strict)

ReadStep == \E uri \in Uris : ReadResource(uri)

Answered == lastUpstream.kind = "http"
Answered2xx == Answered /\ lastUpstream.status >= 200 /\ lastUpstream.status < 300

\* the text of the single block a tool call was answered with
ReplyText == reply.content[1]

\* the fetch of the last tool call failed
FetchFailed ==
    \/ ~Truthy(api_key)
    \/ ~Answered2xx
    \/ lastUpstream.payload.shape # "ok"

\* C11: for get_weather and get_forecast the failure class fixes the text: no
\* API key gives the ConfigError text; an upstream 404 gives the NotFound
\* text with the requested location in it; every other status outside 2xx
\* gives the UpstreamError text with the status code and the response body;
\* and every failure text contains the word "Error".
C11_FailureText ==
    ToolCall({"get_weather", "get_forecast"}) =>
        /\ ~Truthy(api_key) =>
              ReplyText = <<"Error", ":", " ",
                            "OPENWEATHER_API_KEY environment variable not set">>
        /\ (Truthy(api_key) /\ Answered /\ lastUpstream.status = 404) =>
              ReplyText = <<"Error", ":", " ", "Location", " ", "'",
                            LocationOf(lastRequest.args), "'", " ", "not", " ",
                            "found", ".", " ",
                            "Please check the spelling and try again.">>
        /\ (Truthy(api_key) /\ Answered /\ ~Answered2xx /\ lastUpstream.status # 404) =>
              ReplyText = <<"Error", " ", "fetching", " ",
                            EndpointOf(lastRequest.name), " ", "data", ":", " ">>
                          \o NatDigits(lastUpstream.status) \o <<" ", "-", " ">>
                          \o ResponseText(lastUpstream)
        /\ FetchFailed => Contains(ReplyText, <<"Error">>)

\* a forecast for an unknown place was answered 404 by the provider
C11_Witness ==
    /\ ToolCall({"get_forecast"})
    /\ Answered /\ lastUpstream.status = 404
    /\ lastRequest.args.location = "Zzzzzznotreal"
    /\ Contains(ReplyText, <<"'", "Zzzzzznotreal", "'">>)

\* the service answers a request other than the handshake: a list-resources,
\* read-resource, list-tools or call-tool request
ServeStep ==
    /\ <<lastRequest, reply, upstream, lastUpstream>>'
         # <<lastRequest, reply, upstream, lastUpstream>>
    /\ lastRequest'.method # "initialize"

FetchOk(names) == ToolCall(names) /\ ~FetchFailed

\* the unit table: upstream parameter, temperature symbol and wind label
UnitTable ==
    [metric |-> [param |-> "metric", symbol |-> <<"deg", "C">>, wind |-> <<"m/s">>],
     imperial |-> [param |-> "imperial", symbol |-> <<"deg", "F">>, wind |-> <<"mph">>],
     kelvin |-> [param |-> Absent, symbol |-> <<"K">>, wind |-> <<"m/s">>]]

\* the table row of the last call; an absent units argument counts as metric
UnitRow ==
    UnitTable[IF lastRequest.args.units = Absent THEN "metric"
              ELSE lastRequest.args.units]

\* the day lines of a forecast text
DayLines(text) == SelectSeq(Split(text, <<"\n">>), LAMBDA l : l # <<>> /\ Head(l) = "<d>")

\* C13: for units metric, imperial and kelvin (absent counting as metric)
\* both tools send the table's units parameter upstream (none for kelvin)
\* and show the table's symbol after every temperature; get_weather shows
\* the table's wind label after the wind speed.
C13_UnitMapping ==
    /\ (ToolCall({"get_weather", "get_forecast"}) /\ upstream # <<>>) =>
          upstream[1].units = UnitRow.param
    /\ FetchOk({"get_weather"}) =>
          LET d == lastUpstream.payload.data
          IN  /\ Contains(ReplyText, <<" ">> \o FormatNum(d.temp) \o UnitRow.symbol
                                     \o <<" ", "(">>)
              /\ Contains(ReplyText, <<" ">> \o FormatNum(d.feels_like) \o UnitRow.symbol
                                     \o <<")", "\n">>)
              /\ Contains(ReplyText, <<" ">> \o FormatNum(d.wind_speed) \o <<" ">>
                                     \o UnitRow.wind \o <<"\n">>)
              /\ UnitRow.symbol = <<"K">> => ~Contains(ReplyText, <<"deg">>)
    /\ FetchOk({"get_forecast"}) =>
          /\ \A i \in 1..Len(DayLines(ReplyText)) :
                LET t == Split1(DayLines(ReplyText)[i], <<",">>)[1]
                IN  /\ EndsWith(t, UnitRow.symbol)
                    /\ t[Len(t) - Len(UnitRow.symbol)] \in Digits
          /\ UnitRow.symbol = <<"K">> => ~Contains(ReplyText, <<"deg">>)

\* a kelvin report: no units parameter went upstream and the wind is in m/s
C13_Witness ==
    /\ FetchOk({"get_weather"})
    /\ lastRequest.args.units = "kelvin"
    /\ upstream[1].units = Absent
    /\ Contains(ReplyText, <<"K", " ", "(">>)
    /\ Contains(ReplyText, <<" ", "m/s", "\n">>)

\* the value of a JSON number, in units of 1/Scale
ValueOf(x) == IF x.isInt THEN x.v * Scale ELSE x.v

\* the values the rule engine reads off the text of the last reply
ReadBack ==
    LET lines == Split(ReplyText, <<"\n">>)
    IN  [temp |-> ParseTemp(lines), feels |-> ParseFeels(lines),
         hum |-> ParseHum(lines), wind |-> ParseWind(lines), vis |-> ParseVis(lines)]

\* C14: for a report with every field present and units metric, imperial or
\* kelvin, the rule engine reads from the text get_weather rendered the
\* temperature, feels-like, humidity, wind speed and visibility that the
\* report holds.
C14_RoundTrip ==
    (FetchOk({"get_weather"}) /\ lastUpstream.payload.data.visibility.some) =>
        LET d == lastUpstream.payload.data
        IN  ReadBack = [temp |-> Num(ValueOf(d.temp)),
                        feels |-> Num(ValueOf(d.feels_like)),
                        hum |-> Num(d.humidity.v),
                        wind |-> Num(ValueOf(d.wind_speed)),
                        vis |-> Num(d.visibility.v)]

\* the date of a timestamp: what precedes its first space
DatePart(dt) == Split1(dt, <<" ">>)[1]

\* the entries and the distinct dates of the forecast payload last fetched
InList == lastUpstream.payload.data.list
InDates == { DatePart(InList[i].dt_txt) : i \in 1..Len(InList) }

\* the date a day line of the forecast text starts with
LineDate(l) == LET h == Split1(l, <<":">>)[1] IN SubSeq(h, 3, Len(h))

\* the dates of the day lines of the last reply, in order
OutDates == [i \in 1..Len(DayLines(ReplyText)) |-> LineDate(DayLines(ReplyText)[i])]

\* C15: the forecast text has one day line per distinct date of the input, up
\* to five: min(5, number of distinct dates) lines, their dates strictly
\* ascending, and no date of the input that is left out is earlier than a
\* date shown.
C15_FiveEarliestDates ==
    FetchOk({"get_forecast"}) =>
        /\ Len(OutDates) = (IF Cardinality(InDates) < 5 THEN Cardinality(InDates) ELSE 5)
        /\ \A i, j \in 1..Len(OutDates) : i < j => StrLess(OutDates[i], OutDates[j])
        /\ Range(OutDates) \subseteq InDates
        /\ \A d \in InDates \ Range(OutDates) :
              \A o \in Range(OutDates) : StrLess(o, d)

\* entries for seven dates gave five day lines
C15_Witness ==
    /\ FetchOk({"get_forecast"})
    /\ Cardinality(InDates) = 7
    /\ Len(OutDates) = 5
    /\ OutDates[1] = Day(1, 31)

\* the entries of one date, in input order
Group(date) == SelectSeq(InList, LAMBDA e : DatePart(e.dt_txt) = date)

\* the entry a date is to be represented by: its first entry stamped
\* 12:00:00, else the entry at index floor(n/2), counting from 0
Expected(date) ==
    LET g == Group(date)
        noon == { k \in 1..Len(g) :
                    /\ Len(g[k].dt_txt) >= 8
                    /\ SubSeq(g[k].dt_txt, Len(g[k].dt_txt) - 7, Len(g[k].dt_txt))
                         = <<"1", "2", ":", "0", "0", ":", "0", "0">> }
    IN  IF noon # {} THEN g[CHOOSE k \in noon : \A m \in noon : k <= m]
        ELSE g[(Len(g) \div 2) + 1]

\* C16: every day line shows the temperature, conditions and humidity of an
\* entry of its own date: the one stamped 12:00:00 if the date has one, else
\* the one at index floor(n/2) of the date's n entries in input order.
C16_Representative ==
    FetchOk({"get_forecast"}) =>
        \A i \in 1..Len(OutDates) :
            LET e == Expected(OutDates[i])
            IN  DayLines(ReplyText)[i] =
                    <<"<d>", " ">> \o OutDates[i] \o <<":", " ">> \o FormatNum(e.temp)
                    \o UnitRow.symbol \o <<",", " ">> \o Title(e.description)
                    \o <<",", " ", "Humidity", ":", " ">> \o FormatNum(e.humidity)
                    \o <<"%">>

\* a date with three entries and none at noon is shown by its second entry
C16_Witness ==
    /\ FetchOk({"get_forecast"})
    /\ Len(Group(Day(1, 1))) = 3
    /\ Contains(ReplyText, Day(1, 1) \o <<":", " ">> \o FormatNum(JFloat(3 * Scale)))
    /\ lastRequest.args.units = "imperial"

\* what a service that has handled nothing before answers to the last tool
\* call, given the upstream response that call received
FreshAnswer ==
    CHOOSE o \in { handle_call_tool(lastRequest.name, lastRequest.args,
                                    lastUpstream, strict) : strict \in StrictModes } : TRUE

C23_NoKeyNoRequest ==
    /\ (ToolCall({"get_weather", "get_forecast"}) /\ ~Truthy(api_key)) =>
           /\ reply.kind = "result"
           /\ reply.content =
                <<<<"Error", ":", " ", "OPENWEATHER_API_KEY environment variable not set">>>>
           /\ upstream = <<>>
           /\ lastUpstream = NoUpstream
    /\ upstream # <<>> =>
           /\ ToolCall({"get_weather", "get_forecast"})
           /\ api_key.some /\ api_key.s # <<>>
           /\ Len(upstream) = 1
           /\ upstream[1].appid = api_key.s
           /\ upstream[1].endpoint = EndpointOf(lastRequest.name)

\* a forecast was asked of a service whose key is the empty string
C23_Witness ==
    /\ ToolCall({"get_forecast"})
    /\ api_key = Some(<<>>)
    /\ lastRequest.args.location = "London"
    /\ upstream = <<>>
    /\ ReplyText = ConfigErrorText

----------------------------------------------------------------------------
(* Properties of the client connection                                     *)

\* C24: list_available_tools, get_weather and get_forecast send a request
\* only while the client is connected (connect_to_mcp_server returned True
\* and disconnect has not been called since); called in any other state
\* (never connected, connect failed part-way, disconnected) they raise
\* RuntimeError "Not connected to MCP server" and send nothing.
C24_OnlyWhileConnected ==
    lastCall.method # "none" =>
        /\ lastCall.sent => lastCall.phase = "connected"
        /\ lastCall.phase # "connected" =>
              /\ lastCall.kind = "raised"
              /\ lastCall.value = <<"RuntimeError", ":", " ", "Not connected to MCP server">>
              /\ ~lastCall.sent

\* get_weather on a client that had been connected and then disconnected
\* returned an error text instead of raising
C24_AfterDisconnect ==
    /\ lastCall.method = "get_weather"
    /\ lastCall.phase = "disconnected"
    /\ session = "set" /\ link = "closed"
    /\ lastCall.kind = "returned"
    /\ lastCall.value = <<"Error", " ", "getting", " ", "weather", ":", " ",
                          "ClosedResourceError">>

\* list_available_tools after a connect that failed in initialize() wrote its
\* request to the streams
C24_AfterFailedConnect ==
    /\ lastCall.method = "list_available_tools"
    /\ lastCall.phase = "failed"
    /\ lastCall.sent

\* what the request methods do keep to: without a session object they raise
\* the RuntimeError and send nothing, and while connected they send
C24_GuardOnSession ==
    lastCall.method # "none" =>
        /\ (lastCall.phase = "never") =>
              /\ lastCall.kind = "raised"
              /\ lastCall.value = <<"RuntimeError", ":", " ", "Not connected to MCP server">>
              /\ ~lastCall.sent
        /\ lastCall.phase = "connected" => lastCall.sent

----------------------------------------------------------------------------
(* Properties of the rule engine                                           *)

\* the tips due for field values, category by category
TipsFor(f) ==
    ClothingTips(f.temp) \o FeelsTips(f.temp, f.feels) \o PrecipTips(f.desc)
    \o HumidityTips(f.hum) \o WindTips(f.wind) \o VisTips(f.vis) \o SummaryTips(f.desc)

\* the lines of the returned text
OutLines == IF result.s = <<>> THEN <<>> ELSE Split(result.s, <<"\n">>)

\* C17: _rule_based_analysis never raises and returns a string for every
\* text, the empty one and the in-band errors included; a field whose line is
\* missing or holds no number takes away only the tips that depend on it,
\* the tips of the other fields are all there.
C17_Total ==
    /\ pc # "failed"
    /\ raised = "none"
    /\ pc = "done" => (result.some /\ OutLines = TipsFor(fields))

\* the humidity is unreadable and the wind speed is missing its number, yet
\* the clothing and visibility tips are given
C17_Witness ==
    /\ pc = "done"
    /\ Contains(weather_data, <<"Humidity", ":", " ", "N/A", "%">>)
    /\ Contains(weather_data, <<"Speed", ":", " ", "\n">>)
    /\ ~fields.hum.some /\ ~fields.wind.some
    /\ OutLines = <<Tip.Chilly, Tip.FeelsColder, Tip.LowVis>>

\* the category of a tip, in the order of the rules
Category(line) ==
    CASE line \in {Tip.VeryCold, Tip.Chilly, Tip.Hot, Tip.Warm, Tip.Mild} -> 1
      [] line \in {Tip.FeelsColder, Tip.FeelsWarmer} -> 2
      [] line \in {Tip.Umbrella, Tip.Boots} -> 3
      [] line \in {Tip.Muggy, Tip.Dry} -> 4
      [] line \in {Tip.Breezy, Tip.StrongWind} -> 5
      [] line = Tip.LowVis -> 6
      [] OTHER -> 7

LondonFields ==
    Fields(Num(5 * Scale), Num(2 * Scale), <<"light", " ", "rain">>, Num(85),
           Num(12 * Scale), Num(2500))

\* C18: the tips come in the order clothing, feels-like, precipitation,
\* humidity, wind, visibility, summary; the summary is the last line whenever
\* the description is not empty; and the report with temperature 5,
\* feels-like 2, light rain, humidity 85, wind 12 and visibility 2500 gives
\* chilly, feels colder, umbrella, muggy, breezy, low visibility and the
\* summary of "Light rain.", in this order.
C18_TipOrder ==
    pc = "done" =>
        /\ \A i, j \in 1..Len(OutLines) :
              i < j => /\ Category(OutLines[i]) <= Category(OutLines[j])
                       /\ OutLines[i] # Tip.StrongWind \/ OutLines[j] # Tip.Breezy
        /\ fields.desc # <<>> =>
              Last(OutLines) = <<"Conditions", ":", " ">> \o Capitalize(fields.desc) \o <<".">>
        /\ fields.desc = <<>> => \A i \in 1..Len(OutLines) : Category(OutLines[i]) # 7
        /\ fields = LondonFields =>
              OutLines = << Tip.Chilly, Tip.FeelsColder, Tip.Umbrella, Tip.Muggy,
                            Tip.Breezy, Tip.LowVis,
                            <<"Conditions", ":", " ", "Light", " ", "rain", ".">> >>

\* the example report, as get_weather renders it, has been analysed
C18_Witness ==
    /\ pc = "done"
    /\ weather_data = formatted_response(W_London, "metric")
    /\ fields = LondonFields
    /\ Len(OutLines) = 7

RainWords == {"rain", "drizzle", "thunder", "shower"}

\* C19: the umbrella tip is given exactly when the description contains
\* rain, drizzle, thunder or shower, the boots tip exactly when it contains
\* snow and none of these four; the two are never given together.
C19_OnePrecipTip ==
    pc = "done" =>
        LET rainy == \E k \in RainWords : HasWord(fields.desc, k)
            snowy == HasWord(fields.desc, "snow")
        IN  /\ ~(Tip.Umbrella \in Range(OutLines) /\ Tip.Boots \in Range(OutLines))
            /\ Tip.Umbrella \in Range(OutLines) <=> rainy
            /\ Tip.Boots \in Range(OutLines) <=> (snowy /\ ~rainy)

\* rain and snow together: the umbrella only
C19_Witness ==
    /\ pc = "done"
    /\ fields.desc = <<"rain", " ", "and", " ", "snow">>
    /\ Tip.Umbrella \in Range(OutLines)
    /\ Tip.Boots \notin Range(OutLines)

\* the elements of a sequence, each at its first occurrence
FirstOccurrences(seq) ==
    LET keep == { i \in 1..Len(seq) : \A j \in 1..(i - 1) : seq[j] # seq[i] }
    IN  [k \in 1..Cardinality(keep) |->
            seq[CHOOSE i \in keep : Cardinality({ j \in keep : j <= i }) = k]]

\* C20: no tip text occurs twice in the returned text; its lines are the
\* emitted tips in the order of their first emission, one per line.
C20_NoDuplicates ==
    pc = "done" =>
        /\ \A i, j \in 1..Len(OutLines) : i # j => OutLines[i] # OutLines[j]
        /\ OutLines = FirstOccurrences(Tips(Split(weather_data, <<"\n">>)))
        /\ result.s = Join(OutLines, <<"\n">>)

\* a strong wind gave both wind tips, each once
C20_Witness ==
    /\ pc = "done"
    /\ fields.wind = Num((35 * Scale) \div 2)
    /\ Len(SelectSeq(OutLines, LAMBDA l : Category(l) = 5)) = 2
    /\ Len(OutLines) >= 6

====
